---- MODULE Spec2Model ----
(***************************************************************************)
(* A model of PyWDE's wavelet density estimators.                          *)
(*                                                                         *)
(*   src/pywde/square_root_estimator.py  WParams, WaveletDensityEstimator  *)
(*   src/pywde/log_estimator.py          WaveletDensityEstimator (log/MDL) *)
(*   src/pywde/spwde.py                  SPWDE, balls_no_i                 *)
(*                                                                         *)
(* Numbers.  The code computes with floats; the model computes with        *)
(* integers.  A coefficient, a contribution (term1 - term2 + term3) and a  *)
(* norm term (coeff * coeff_b) are integers in a common unit.  A loss is   *)
(* never stored as a number: it is the pair <<batta_sum, norm_sum>> it is  *)
(* computed from, and two losses are compared by LossLT, which decides     *)
(* 1 - b, 1 - b/sqrt(n) and 0.5 + 0.5 n - b exactly.                       *)
(*                                                                         *)
(* Keys.  A key (j, qx, zs, jpow2) of the store is <<j, qx, zs>>: jpow2 is *)
(* 2^(j0 + j), a function of j.  qx = 0 is the all-zero quadrant (scaling  *)
(* functions), qx = 1 a wavelet quadrant.                                  *)
(*                                                                         *)
(* Positions.  curr_k, pos_k and every list index keep Python's 0-based    *)
(* values (-1 included); Nth(s, i) reads a list the way Python does.       *)
(***************************************************************************)
EXTENDS Integers, Sequences, FiniteSets, TLC

VARIABLES
    \* ---- calc_pdf_cv / single_threshold / multi_threshold ----
    cv_pc,        \* "begin" | "mt_loop" | "returned" | "raised"
    cv_params,    \* the fitted estimator: [coeffs, terms, n, delta_j]
    cv_args,      \* the call's arguments: [loss, ordering, single]
    cv_coeffs,    \* the local dict `coeffs` (the reduced store)
    cv_single,    \* ThresholdResult of single_threshold
    mt_levels,    \* state_wde.levels: sequence of StateJ
    mt_current,   \* current_val, as <<batta_sum, norm_sum>>
    mt_trace,     \* number of entries appended to `trace` after the first
    cv_result,    \* self.thresholds: per level [pos_k, target_val, ...]
    \* ---- WParams.calc_pdf on a coefficient set ----
    pdf_pc,       \* "begin" | "returned" | "evaluated" | "raised"
    pdf_arg,      \* the argument `coeffs`
    pdf_fun,      \* the returned function: [coeffs, norm_const, nparams, dim]
    pdf_val,      \* its last value: [x, num, den], the float num / den
    \* ---- log_estimator.WaveletDensityEstimator ----
    log_pc,       \* "new" | "fit" | "mdlfit": the last call that returned
    log_xs,       \* the sample: [coeffs, nums, n, logLL] (see LogSamples)
    log_delta_j,  \* self.delta_j
    log_coeffs,   \* self.coeffs, key -> v
    log_nums,     \* self.nums, key -> num
    log_n,        \* self.n
    log_ranking,  \* self.ranking
    log_best,     \* the best_tuple calc_pdf_mdl returned to mdlfit
    log_thresholding, \* self.thresholding: None or a hard_th closure
    log_pdf,      \* self.pdf: None or pdffun, as [dim]
    log_val,      \* the last value of self.pdf: [x, num, den]
    \* ---- square_root_estimator.WaveletDensityEstimator on samples ----
    est_pc,       \* "idle" | "best_j" (inside best_j's loops)
    est_xs,       \* the sample object xs: a list of positions
    est_tree,     \* what BallTree(xs).query(xs, k + 2) returns for it
    est_cfg,      \* the constructor's arguments [k, delta_j]
    est_delta_j,  \* self.delta_j
    est_ref,      \* self._xs: "None" or the sample object of the last _fitinit
    est_params,   \* self.params, which is self._params: None or a WParams
    est_pdf,      \* self.pdf: None or [kind, live, fun, among]
    est_held,     \* the density function the caller kept: None or [now, then]
    est_call,     \* the last call made: [op, arg, opts, raised]
    bj_ini_j,     \* best_j's ini_j
    bj_ix,        \* best_j's ix: the samples calc_coeffs_loo was called for
    \* ---- the leave-one-out ball volumes of both modules ----
    loo_pc,       \* "given" | "done"
    loo_in,       \* the sample and its neighbours: [xs, k, tree]
    loo_ix,       \* the excluded index of the last calc_coeffs_loo
    loo_balls,    \* `balls` of the last calc_coeffs_loo (n - 1 volumes)
    loo_no_ix,    \* the excluded index of the last balls_no_i
    loo_no_i,     \* what the last balls_no_i returned (n volumes)
    \* ---- calc_iter_pdf: the greedy phase of iterfit ----
    it_pc,        \* "begin" | "greedy" | "returned" | "raised"
    it_params,    \* self.params and self.delta_j at the call: [store, fresh, n, delta_j]
    it_coeffs,    \* the keys of the local dict `coeffs` (the retained set)
    it_loss,      \* <<contribution, norm2>>: `loss` is 1 - contribution / sqrt(norm2)
    it_contributions, \* the list `contributions`
    it_max_lvl,   \* max_lvl
    it_accepted,  \* the keys the greedy loop accepted, in order
    it_stop,      \* why the greedy loop ended: "exhausted" | "cap" | "rejected"
    it_delta_j    \* self.delta_j

cvVars == <<cv_pc, cv_params, cv_args, cv_coeffs, cv_single, mt_levels,
            mt_current, mt_trace, cv_result>>

pdfVars == <<pdf_pc, pdf_arg, pdf_fun, pdf_val>>

logVars == <<log_pc, log_xs, log_delta_j, log_coeffs, log_nums, log_n, log_ranking,
             log_best, log_thresholding, log_pdf, log_val>>

estVars == <<est_pc, est_xs, est_tree, est_cfg, est_delta_j, est_ref, est_params,
             est_pdf, est_held, est_call, bj_ini_j, bj_ix>>

looVars == <<loo_pc, loo_in, loo_ix, loo_balls, loo_no_ix, loo_no_i>>

itVars == <<it_pc, it_params, it_coeffs, it_loss, it_contributions, it_max_lvl,
            it_accepted, it_stop, it_delta_j>>

vars == <<cvVars, pdfVars, logVars, estVars, looVars, itVars>>

\* what a step of one part of the program leaves alone
cvRest == <<pdfVars, logVars, estVars, looVars, itVars>>

pdfRest == <<cvVars, logVars, estVars, looVars, itVars>>

logRest == <<cvVars, pdfVars, estVars, looVars, itVars>>

estRest == <<cvVars, pdfVars, logVars, looVars, itVars>>

looRest == <<cvVars, pdfVars, logVars, estVars, itVars>>

itRest == <<cvVars, pdfVars, logVars, estVars, looVars>>

----------------------------------------------------------------------------
(* Python lists and dicts *)

\* s[i] for a Python list held as a TLA+ sequence: 0-based, negative i
\* counts from the end.  The caller checks PyIndexOk first (IndexError).
PyIndexOk(s, i) == -Len(s) <= i /\ i < Len(s)

Nth(s, i) == IF i < 0 THEN s[Len(s) + i + 1] ELSE s[i + 1]

\* s[:m] (m >= 0 or m < 0, as Python's slice clamps it)
PyPrefix(s, m) ==
    LET stop == IF m < 0 THEN (IF Len(s) + m < 0 THEN 0 ELSE Len(s) + m)
                ELSE (IF m > Len(s) THEN Len(s) ELSE m)
    IN SubSeq(s, 1, stop)

RECURSIVE SumSeq(_)
SumSeq(s) == IF s = <<>> THEN 0 ELSE s[1] + SumSeq(Tail(s))

Abs(x) == IF x < 0 THEN -x ELSE x

Min2(a, b) == IF a <= b THEN a ELSE b

Max2(a, b) == IF a >= b THEN a ELSE b

\* None in the store (an index whose coefficients are not computed yet)
None == <<>>

----------------------------------------------------------------------------
(* Keys of the store *)

KeyJ(key) == key[1]

\* is_alpha = j == 0 and all([qi == 0 for qi in qx])
IsAlpha(key) == key[1] = 0 /\ key[2] = 0

\* dict iteration order = insertion order of _calc_indexes: the alphas, then
\* the betas level by level, each in itt.product order of zs
KeyBefore(a, b) ==
    \/ IsAlpha(a) /\ ~IsAlpha(b)
    \/ /\ IsAlpha(a) = IsAlpha(b)
       /\ \/ a[1] < b[1]
          \/ a[1] = b[1] /\ a[2] < b[2]
          \/ a[1] = b[1] /\ a[2] = b[2] /\ a[3] < b[3]

RECURSIVE KeysInOrder(_)
KeysInOrder(keys) ==
    IF keys = {} THEN <<>>
    ELSE LET first == CHOOSE k \in keys : \A o \in keys \ {k} : KeyBefore(k, o)
         IN <<first>> \o KeysInOrder(keys \ {first})

----------------------------------------------------------------------------
(* The wavelet (pywde/pywt_ext.py, WaveletTensorProduct): a collaborator of   *)
(* the estimators that gives the values of the dual and base functions of a  *)
(* key, the support of a function and the range of translations that covers  *)
(* a box.  The model uses a one-dimensional biorthogonal pair on a grid of   *)
(* GridCells sample positions 0..GridCells-1, with j0 = 0:                   *)
(*   level j cuts the grid into 2^j cells;                                   *)
(*   dual scaling function z: 1 on cell z;                                   *)
(*   base scaling function z: 1 on cells z and z+1;                          *)
(*   dual wavelet z: 1 on the left half of cell z, -1 on the right half;     *)
(*   base wavelet z: the dual wavelet z minus the dual wavelet z+1.          *)

GridCells == 4

WaveDim == 1

RECURSIVE Pow2(_)
Pow2(j) == IF j = 0 THEN 1 ELSE 2 * Pow2(j - 1)

Cell(j, x) == (x * Pow2(j)) \div GridCells

Haar(j, z, x) ==
    IF Cell(j, x) # z THEN 0
    ELSE IF Cell(j + 1, x) = 2 * z THEN 1 ELSE -1

\* wave.fun_ix(what, (qx, jpow2, zs))(x) for the key <<j, qx, zs>>
FunIx(what, key, x) ==
    LET j == key[1]
        z == key[3]
    IN IF key[2] = 0
       THEN IF what = "dual"
            THEN (IF Cell(j, x) = z THEN 1 ELSE 0)
            ELSE (IF Cell(j, x) \in {z, z + 1} THEN 1 ELSE 0)
       ELSE IF what = "dual"
            THEN Haar(j, z, x)
            ELSE Haar(j, z, x) - Haar(j, z + 1, x)

\* wave.supp_ix('dual', (qx, jpow2, zs))(x): x lies in the support
SuppIx(what, key, x) ==
    IF what = "dual" THEN Cell(key[1], x) = key[3]
    ELSE Cell(key[1], x) \in {key[3], key[3] + 1}

\* wave.z_range(what, (qx, jpow2, None), minx, maxx): the translations whose
\* function reaches the box [minx, maxx], as <<zs_min, zs_max>>
ZRange(what, j, minx, maxx) ==
    IF what = "dual" THEN <<Cell(j, minx), Cell(j, maxx)>>
    ELSE <<Cell(j, minx) - 1, Cell(j, maxx)>>

----------------------------------------------------------------------------
(* Losses and orderings (square_root_estimator.py 408-435) *)

NEW_LOSS == "Improved"

ORIGINAL_LOSS == "Original"

NORMED_LOSS == "Normed"

LOSSES == {NEW_LOSS, ORIGINAL_LOSS, NORMED_LOSS}

\* x * sqrt(m) < y * sqrt(n) for m, n > 0, decided on the squares
SqrtScaledLT(x, m, y, n) ==
    IF x < 0 /\ y >= 0 THEN TRUE
    ELSE IF x >= 0 /\ y < 0 THEN FALSE
    ELSE IF x >= 0 THEN x * x * m < y * y * n
    ELSE x * x * m > y * y * n

\* lossfn(b1, n1) < lossfn(b2, n2), where a loss v is <<batta_sum, norm_sum>>:
\*   Original  1 - b
\*   Normed    1 - b / sqrt(n)
\*   Improved  0.5 + 0.5 * n - b
LossLT(loss, v1, v2) ==
    IF loss = ORIGINAL_LOSS THEN v2[1] < v1[1]
    ELSE IF loss = NORMED_LOSS THEN SqrtScaledLT(v2[1], v1[2], v1[1], v2[2])
    ELSE v1[2] - 2 * v1[1] < v2[2] - 2 * v2[1]

LossLE(loss, v1, v2) == ~LossLT(loss, v2, v1)

\* math.sqrt(norm_sum) and the division by it are defined
LossDefined(loss, v) == loss = NORMED_LOSS => v[2] > 0

ORDERINGS == {"QTerm", "AQTerm", "Q2Term", "AQ2Term", "QImpr", "AQImpr", "Trad", "TrBio"}

\* ORDERINGS[ordering](coeff, coeff2, contrib, j).  Keys are only ever
\* compared between candidates of one level j (the sort is by j first, and a
\* StateJ holds one level), so the positive factors 1/sqrt(j+1) of Trad and
\* 1/(j+1) of TrBio are left out, and QImpr's key is doubled to stay integral.
OrderingKey(ordering, coeff, coeff2, contrib, j) ==
    CASE ordering = "QTerm"   -> contrib
      [] ordering = "AQTerm"  -> Abs(contrib)
      [] ordering = "Q2Term"  -> coeff2 + (contrib - coeff2)
      [] ordering = "AQ2Term" -> Abs(coeff2 + (contrib - coeff2))
      [] ordering = "QImpr"   -> 2 * contrib - coeff2
      [] ordering = "AQImpr"  -> Abs(2 * contrib - coeff2)
      [] ordering = "Trad"    -> Abs(coeff)
      [] ordering = "TrBio"   -> coeff2

----------------------------------------------------------------------------
(* calc_terms (199-234).  term1, term2 and term3 are sums of products of     *)
(* wavelet values and ball volumes scaled by omega(n) and omega(n-1), which  *)
(* are irrational; the code only ever uses term1 - term2 + term3, so the     *)
(* model keeps that sum, per key, in the table `terms` of the fitted         *)
(* estimator, and computes coeff2 = coeff * coeff_b as the code does.        *)
CalcTerms(terms, key, coeff, coeff_b) ==
    [contrib |-> terms[key], coeff2 |-> coeff * coeff_b]

----------------------------------------------------------------------------
(* calc_c_function, pos_k_min, single_threshold (790-838, 898-899) *)

\* the sort key of the line left as a comment (802): -values[1] alone
SortsByKeyOnly(a, b) == a.thr > b.thr

\* sorted(contributions, key=lambda values: (values[0][0][0], -values[1])):
\* a candidate is [key, tup, thr, contrib, coeff2]
SortsBefore(a, b) ==
    \/ KeyJ(a.key) < KeyJ(b.key)
    \/ KeyJ(a.key) = KeyJ(b.key) /\ a.thr > b.thr

\* Python's sort is stable: x goes after every element that does not sort
\* strictly after it.  before[<<a, b>>] is `key(a) < key(b)`.
RECURSIVE InsertSorted(_, _, _)
InsertSorted(before, s, x) ==
    IF s = <<>> THEN <<x>>
    ELSE IF before[<<x, s[1]>>] THEN <<x>> \o s
    ELSE <<s[1]>> \o InsertSorted(before, Tail(s), x)

RECURSIVE StableSort(_, _)
StableSort(before, s) ==
    IF s = <<>> THEN <<>>
    ELSE InsertSorted(before, StableSort(before, SubSeq(s, 1, Len(s) - 1)), s[Len(s)])

\* the elements of a list
Range(s) == {s[i] : i \in DOMAIN s}

\* vals[nump] = (threshold, target, j) for the prefix sorted[0..nump]; the
\* target is kept as <<batta_sum, norm_sum>>
CFunctionVals(sorted, curr_norm, curr_contribution) ==
    [i \in 1..Len(sorted) |->
        [threshold |-> sorted[i].thr,
         target    |-> <<curr_contribution + SumSeq([m \in 1..i |-> sorted[m].contrib]),
                         curr_norm + SumSeq([m \in 1..i |-> sorted[m].coeff2])>>,
         j         |-> KeyJ(sorted[i].key)]]

\* np.argmin(vals[:, 1]): the first position of the minimum (0-based)
ArgMinLoss(loss, vals) ==
    CHOOSE i \in 0..(Len(vals) - 1) :
        /\ \A m \in 0..(Len(vals) - 1) : LossLE(loss, vals[i + 1].target, vals[m + 1].target)
        /\ \A m \in 0..(i - 1) : LossLT(loss, vals[i + 1].target, vals[m + 1].target)

\* pos_k_min without the cap max_params
PosKMinNoCap(loss, vals, max_params) ==
    Min2(ArgMinLoss(loss, vals), Len(vals) - 1)

\* min(np.argmin(vals[:, 1]), max_params, vals.shape[0] - 1)
PosKMin(loss, vals, max_params) ==
    Min2(Min2(ArgMinLoss(loss, vals), max_params), Len(vals) - 1)

\* The 1.0 of the 'No betas' result, which is no value of the loss function
NoTarget == <<>>

\* single_threshold(coeffs, loss, contributions, alpha_norm, alpha_contribution)
\* with max_params = self.params.n - len(coeffs).  [raised |-> TRUE] when the
\* call raises: math.sqrt or the division of the Normed loss on a norm_sum <= 0,
\* or vals[k, :] on a k below -len(vals).
SingleThreshold(n, nalphas, loss, contributions, alpha_norm, alpha_contribution) ==
    LET sorted_cont == StableSort([p \in Range(contributions) \X Range(contributions) |->
                                        SortsBefore(p[1], p[2])], contributions)
        vals == CFunctionVals(sorted_cont, alpha_norm, alpha_contribution)
    IN IF \E i \in 1..Len(vals) : ~LossDefined(loss, vals[i].target)
       THEN [raised |-> TRUE]
       ELSE IF Len(vals) = 0
       THEN [raised |-> FALSE, threshold |-> 0, pos_k |-> -1, target_val |-> NoTarget,
             sorted_contrib |-> <<>>, th_j |-> -1, msg |-> "No betas"]
       ELSE LET k == PosKMin(loss, vals, n - nalphas)
            IN IF ~PyIndexOk(vals, k) THEN [raised |-> TRUE]
               ELSE [raised |-> FALSE, threshold |-> Nth(vals, k).threshold, pos_k |-> k,
                     target_val |-> Nth(vals, k).target, sorted_contrib |-> sorted_cont,
                     th_j |-> Nth(vals, k).j, msg |-> "All"]

----------------------------------------------------------------------------
(* calc_pdf_cv, lines 605-633: the scan of the full store *)

\* The candidate of a beta key: ((key, tup), threshold, (term1, term2, term3, coeff2))
Candidate(terms, ordering, key, tup) ==
    LET t == CalcTerms(terms, key, tup[1], tup[2])
    IN [key |-> key, tup |-> tup,
        thr |-> OrderingKey(ordering, tup[1], t.coeff2, t.contrib, KeyJ(key)),
        contrib |-> t.contrib, coeff2 |-> t.coeff2]

\* the keys the loop does not skip: `if coeff == 0.0: continue`
ScannedKeys(coeffs) == {key \in DOMAIN coeffs : coeffs[key][1] # 0}

\* [coeffs, alpha_norm, alpha_contribution, contributions] after the loop
ScanStore(coeffs, terms, ordering) ==
    LET alphas == {key \in ScannedKeys(coeffs) : IsAlpha(key)}
        betas  == KeysInOrder({key \in ScannedKeys(coeffs) : ~IsAlpha(key)})
        aseq   == KeysInOrder(alphas)
    IN [coeffs |-> [key \in alphas |-> coeffs[key]],
        alpha_norm |->
            SumSeq([i \in 1..Len(aseq) |->
                CalcTerms(terms, aseq[i], coeffs[aseq[i]][1], coeffs[aseq[i]][2]).coeff2]),
        alpha_contribution |->
            SumSeq([i \in 1..Len(aseq) |->
                CalcTerms(terms, aseq[i], coeffs[aseq[i]][1], coeffs[aseq[i]][2]).contrib]),
        contributions |->
            [i \in 1..Len(betas) |-> Candidate(terms, ordering, betas[i], coeffs[betas[i]])]]

\* AddPrefix storing values[2] (the terms) where the code stores values[0][1]
AddPrefixTerms(coeffs, sorted_contrib, pos_k) ==
    LET kept == PyPrefix(sorted_contrib, pos_k + 1)
        keys == {kept[i].key : i \in 1..Len(kept)}
    IN [key \in DOMAIN coeffs \cup keys |->
           IF \E i \in 1..Len(kept) : kept[i].key = key
           THEN LET c == CHOOSE c \in {kept[i] : i \in 1..Len(kept)} : c.key = key
                IN <<c.contrib, 0, 0, c.coeff2>>
           ELSE coeffs[key]]

\* coeffs[key] = tup for values in sorted_contrib[:pos_k + 1]
AddPrefix(coeffs, sorted_contrib, pos_k) ==
    LET kept == PyPrefix(sorted_contrib, pos_k + 1)
        keys == {kept[i].key : i \in 1..Len(kept)}
    IN [key \in DOMAIN coeffs \cup keys |->
           IF \E i \in 1..Len(kept) : kept[i].key = key
           THEN (CHOOSE c \in {kept[i] : i \in 1..Len(kept)} : c.key = key).tup
           ELSE coeffs[key]]

----------------------------------------------------------------------------
(* StateJ and StateWDE (654-723) *)

\* A threshold_c of multi_threshold: a key, float('-inf') or float('inf')
MinusInf == [inf |-> -1, c |-> 0]

PlusInf == [inf |-> 1, c |-> 0]

Finite(c) == [inf |-> 0, c |-> c]

\* v >= threshold_c
KeyGE(v, t) == t.inf = -1 \/ (t.inf = 0 /\ v >= t.c)

\* np.argmin of an array of booleans: the first False, or 0 when all are True
\* (the minimum is then True, first found at 0).  The array is not empty.
ArgMinBool(flags) ==
    IF \A i \in 1..Len(flags) : flags[i] THEN 0
    ELSE (CHOOSE i \in 1..Len(flags) : ~flags[i] /\ \A m \in 1..(i - 1) : flags[m]) - 1

\* self.curr_k = np.argmin(np.array([v[1] for v in contribs]) >= threshold_c) - 1
InitCurrK(contribs, threshold_c) ==
    ArgMinBool([i \in 1..Len(contribs) |-> KeyGE(contribs[i].thr, threshold_c)]) - 1

\* StateJ.__init__; batta_sums and norm_sums are the cumulative sums of
\* contribs, read off by BattaSums and NormSums
StateJ(j, contribs, threshold_c) ==
    [j |-> j, contribs |-> contribs, curr_k |-> InitCurrK(contribs, threshold_c), dk |-> 0]

BattaSums(st, k) == SumSeq([i \in 1..(k + 1) |-> st.contribs[i].contrib])

NormSums(st, k) == SumSeq([i \in 1..(k + 1) |-> st.contribs[i].coeff2])

\* dk_ok
DkOk(st) == 0 <= st.curr_k + st.dk /\ st.curr_k + st.dk < Len(st.contribs)

\* batta_sum and norm_sum
BattaSum(st) == IF ~DkOk(st) THEN 0 ELSE BattaSums(st, st.curr_k + st.dk)

NormSum(st) == IF ~DkOk(st) THEN 0 ELSE NormSums(st, st.curr_k + st.dk)

\* StateWDE.eval_target, as <<batta_sum, norm_sum>>
EvalTarget(alpha_contrib, alpha_norm, levels) ==
    <<alpha_contrib + SumSeq([i \in 1..Len(levels) |-> BattaSum(levels[i])]),
      alpha_norm + SumSeq([i \in 1..Len(levels) |-> NormSum(levels[i])])>>

\* as_result
AsResult(st, target_val) ==
    [threshold |-> Nth(st.contribs, st.curr_k).thr, pos_k |-> st.curr_k,
     target_val |-> target_val, sorted_contrib |-> st.contribs, th_j |-> st.j,
     msg |-> "Multi"]

----------------------------------------------------------------------------
(* multi_threshold (726-788) *)

\* ddx = 2
ddx == 2

\* sorted(filter(lambda tup: tup[0][0][0] == j, sorted_contributions), key=-values[1])
ThrDescending(a, b) == a.thr > b.thr

ContribJ(sorted_contributions, j) ==
    LET AtJ(c) == KeyJ(c.key) = j
        contrib_j == SelectSeq(sorted_contributions, AtJ)
    IN StableSort([p \in Range(contrib_j) \X Range(contrib_j) |->
                      ThrDescending(p[1], p[2])], contrib_j)

\* The value of the variable threshold_c when StateJ is built for level j.
\* The loop assigns to the parameter itself: once a level below th_j has set
\* it to -inf, `threshold_c = threshold_c` at j == th_j keeps -inf.
ThresholdAt(j, threshold_c, th_j) ==
    IF j < th_j THEN MinusInf
    ELSE IF j = th_j THEN (IF th_j > 0 THEN MinusInf ELSE Finite(threshold_c))
    ELSE PlusInf

\* lines 730-741; np.argmin raises ValueError on a level without candidates
LevelsRaise(delta_j, sorted_contributions) ==
    \E j \in 0..(delta_j - 1) : ContribJ(sorted_contributions, j) = <<>>

InitLevels(delta_j, sorted_contributions, threshold_c, th_j) ==
    [i \in 1..delta_j |->
        StateJ(i - 1, ContribJ(sorted_contributions, i - 1),
               ThresholdAt(i - 1, threshold_c, th_j))]

\* itt.product([-ddx, 0, ddx], repeat=delta_j), in its order
RECURSIVE Product(_)
Product(m) ==
    IF m = 0 THEN <<<<>>>>
    ELSE LET rest == Product(m - 1)
             With(d) == [i \in 1..Len(rest) |-> <<d>> \o rest[i]]
         IN With(-ddx) \o With(0) \o With(ddx)

SetDk(levels, dk_js) == [i \in 1..Len(levels) |-> [levels[i] EXCEPT !.dk = dk_js[i]]]

\* the combinations the round does not `continue` past (lines 760-768)
Evaluated(levels, dk_js) ==
    /\ ~(\A i \in 1..Len(dk_js) : dk_js[i] = 0)
    /\ \A i \in 1..Len(levels) : DkOk(SetDk(levels, dk_js)[i])

\* a comparison that takes an equal loss too
NotWorse(loss, new_val, current_val) == ~LossLT(loss, current_val, new_val)

\* `if new_val < current_val` (line 775)
Improves(loss, new_val, current_val) == LossLT(loss, new_val, current_val)

\* One pass of the for loop of lines 759-778 over combos[from..]:
\* [ok, current_val, best_dk_js, raised]
RECURSIVE RoundFrom(_, _, _, _, _, _, _)
RoundFrom(loss, ac, an, levels, combos, from, acc) ==
    IF from > Len(combos) \/ acc.raised THEN acc
    ELSE LET dk_js == combos[from]
             new_val == EvalTarget(ac, an, SetDk(levels, dk_js))
         IN IF ~Evaluated(levels, dk_js)
            THEN RoundFrom(loss, ac, an, levels, combos, from + 1, acc)
            ELSE IF ~LossDefined(loss, new_val)
            THEN [acc EXCEPT !.raised = TRUE]
            ELSE IF Improves(loss, new_val, acc.current_val)
            THEN RoundFrom(loss, ac, an, levels, combos, from + 1,
                           [acc EXCEPT !.ok = TRUE, !.current_val = new_val,
                                       !.best_dk_js = dk_js])
            ELSE RoundFrom(loss, ac, an, levels, combos, from + 1, acc)

Round(loss, ac, an, levels, current_val) ==
    RoundFrom(loss, ac, an, levels, Product(Len(levels)), 1,
              [ok |-> FALSE, current_val |-> current_val, best_dk_js |-> <<>>,
               raised |-> FALSE])

\* lines 783-785: dk = best_dk_js[j] / ddx; set_new().  The quotient is a
\* float of integral value (-1.0, 0.0 or 1.0).
SetNew(levels, best_dk_js) ==
    [i \in 1..Len(levels) |->
        [levels[i] EXCEPT !.dk = best_dk_js[i] \div ddx,
                          !.curr_k = levels[i].curr_k + (best_dk_js[i] \div ddx)]]

----------------------------------------------------------------------------
(* Cross-validated selection, step by step: one call of calc_pdf_cv on a     *)
(* fitted estimator.                                                         *)

\* Bounds of the stores the call is tried on
MaxBetas == 3

MaxN == 3

CvDeltaJs == {0, 1, 2}

CvZs == {0, 1, 2}

CvOrderings == {"QTerm", "AQTerm"}

\* A beta entry and its contribution: (coeff, coeff_b, num) and
\* term1 - term2 + term3
BetaProfiles ==
    { [tup |-> <<1, 1, 1>>, q |-> 1],
      [tup |-> <<1, 1, 1>>, q |-> -1],
      [tup |-> <<2, 2, 2>>, q |-> 3] }

\* An alpha entry.  The second has no sample in the support of its dual
\* function, so coeff = 0 and num = 0, while its base function does reach
\* the samples (coeff_b # 0): calc_coeffs keeps it, as only one of the two
\* coefficients is below the floor.
AlphaProfiles ==
    { [tup |-> <<1, 1, 1>>, q |-> 1],
      [tup |-> <<0, 1, 0>>, q |-> 0] }

CvBetaKeys(delta_j) == {<<j, 1, z>> : j \in 0..(delta_j - 1), z \in CvZs}

CvInit ==
    /\ cv_pc = "begin"
    /\ \E delta_j \in CvDeltaJs, n \in 3..MaxN :
       \E B \in SUBSET CvBetaKeys(delta_j), A1 \in SUBSET {<<0, 0, 1>>} :
       \E bp \in [B -> BetaProfiles], ap \in [A1 -> AlphaProfiles] :
          /\ Cardinality(B) <= MaxBetas
          /\ cv_params =
                [coeffs |-> [key \in {<<0, 0, 0>>} \cup A1 \cup B |->
                                IF key = <<0, 0, 0>> THEN <<1, 1, 1>>
                                ELSE IF key \in A1 THEN ap[key].tup ELSE bp[key].tup],
                 terms |-> [key \in {<<0, 0, 0>>} \cup A1 \cup B |->
                                IF key = <<0, 0, 0>> THEN 1
                                ELSE IF key \in A1 THEN ap[key].q ELSE bp[key].q],
                 n |-> n, delta_j |-> delta_j]
    /\ cv_args = <<>>
    /\ cv_coeffs = <<>>
    /\ cv_single = <<>>
    /\ mt_levels = <<>>
    /\ mt_current = <<>>
    /\ mt_trace = 0
    /\ cv_result = <<>>

\* as if calc_pdf_cv installed its dict as the store
StoreReplaced(store, coeffs) == coeffs

\* self.params.coeffs after calc_pdf_cv filled its dict `coeffs`: the dict is
\* the new one of line 605, the store is only read (line 611)
StoreAfterCv(store, coeffs) == store

\* calc_pdf_cv(xs, loss, ordering, single_threshold=True), lines 600-640
CvSingle(loss, ordering) ==
    /\ cv_pc = "begin"
    /\ cv_args' = [loss |-> loss, ordering |-> ordering, single |-> TRUE]
    /\ IF cv_params.delta_j = 0
       THEN /\ cv_pc' = "raised"
            /\ UNCHANGED <<cv_coeffs, cv_single>>
       ELSE LET scan == ScanStore(cv_params.coeffs, cv_params.terms, ordering)
                th == SingleThreshold(cv_params.n, Cardinality(DOMAIN scan.coeffs), loss,
                                      scan.contributions, scan.alpha_norm,
                                      scan.alpha_contribution)
            IN IF th.raised
               THEN /\ cv_pc' = "raised"
                    /\ cv_coeffs' = scan.coeffs
                    /\ UNCHANGED cv_single
               ELSE /\ cv_pc' = "returned"
                    /\ cv_single' = th
                    /\ cv_coeffs' = AddPrefix(scan.coeffs, th.sorted_contrib, th.pos_k)
    /\ cv_params' = [cv_params EXCEPT !.coeffs = StoreAfterCv(@, cv_coeffs')]
    /\ UNCHANGED <<mt_levels, mt_current, mt_trace, cv_result>>
    /\ UNCHANGED cvRest

\* calc_pdf_cv(xs, loss, ordering, single_threshold=False) up to line 745 of
\* multi_threshold: the scan, single_threshold, the StateJ of every level and
\* the first eval_target
CvMultiBegin(loss, ordering) ==
    /\ cv_pc = "begin"
    /\ cv_args' = [loss |-> loss, ordering |-> ordering, single |-> FALSE]
    /\ IF cv_params.delta_j = 0
       THEN /\ cv_pc' = "raised"
            /\ UNCHANGED <<cv_coeffs, cv_single, mt_levels, mt_current>>
       ELSE LET scan == ScanStore(cv_params.coeffs, cv_params.terms, ordering)
                th == SingleThreshold(cv_params.n, Cardinality(DOMAIN scan.coeffs), loss,
                                      scan.contributions, scan.alpha_norm,
                                      scan.alpha_contribution)
            IN IF th.raised
               THEN /\ cv_pc' = "raised"
                    /\ cv_coeffs' = scan.coeffs
                    /\ UNCHANGED <<cv_single, mt_levels, mt_current>>
               ELSE IF LevelsRaise(cv_params.delta_j, th.sorted_contrib)
               THEN /\ cv_pc' = "raised"
                    /\ cv_coeffs' = scan.coeffs
                    /\ cv_single' = th
                    /\ UNCHANGED <<mt_levels, mt_current>>
               ELSE LET levels == InitLevels(cv_params.delta_j, th.sorted_contrib,
                                             th.threshold, th.th_j)
                        val == EvalTarget(scan.alpha_contribution, scan.alpha_norm, levels)
                    IN /\ cv_coeffs' = scan.coeffs
                       /\ cv_single' = th
                       /\ mt_levels' = levels
                       /\ mt_current' = val
                       /\ cv_pc' = IF LossDefined(loss, val) THEN "mt_loop" ELSE "raised"
    /\ cv_params' = [cv_params EXCEPT !.coeffs = StoreAfterCv(@, cv_coeffs')]
    /\ UNCHANGED <<mt_trace, cv_result>>
    /\ UNCHANGED cvRest

\* alpha_contribution and alpha_norm as calc_pdf_cv passed them
CvAlphaContribution ==
    ScanStore(cv_params.coeffs, cv_params.terms, cv_args.ordering).alpha_contribution

CvAlphaNorm ==
    ScanStore(cv_params.coeffs, cv_params.terms, cv_args.ordering).alpha_norm

CvRound == Round(cv_args.loss, CvAlphaContribution, CvAlphaNorm, mt_levels, mt_current)

\* A round of the while loop (754-778) that finds no lower loss, or raises in
\* eval_target; then lines 787-788 and calc_pdf_cv's lines 647-652
MtRoundStop ==
    /\ cv_pc = "mt_loop"
    /\ ~CvRound.ok
    /\ IF CvRound.raised
       THEN /\ cv_pc' = "raised"
            /\ UNCHANGED <<cv_result, cv_coeffs>>
       ELSE LET thresholds == [i \in 1..Len(mt_levels) |-> AsResult(mt_levels[i], mt_current)]
                RECURSIVE Copy(_, _)
                Copy(coeffs, i) ==
                    IF i > Len(thresholds) THEN coeffs
                    ELSE Copy(AddPrefix(coeffs, thresholds[i].sorted_contrib,
                                        thresholds[i].pos_k), i + 1)
            IN /\ cv_pc' = "returned"
               /\ cv_result' = thresholds
               /\ cv_coeffs' = Copy(cv_coeffs, 1)
    /\ cv_params' = [cv_params EXCEPT !.coeffs = StoreAfterCv(@, cv_coeffs')]
    /\ UNCHANGED <<cv_args, cv_single, mt_levels, mt_current, mt_trace>>
    /\ UNCHANGED cvRest

\* A round that finds a lower loss: lines 781-786.  set_new leaves every
\* curr_k a float (best_dk_js[j] / ddx is a true division), and line 786
\* indexes the list contribs with it in curr_cs.  Where a float of integral
\* value is accepted as an index the search goes on:
MtRoundAccept ==
    /\ cv_pc = "mt_loop"
    /\ CvRound.ok /\ ~CvRound.raised
    /\ mt_current' = CvRound.current_val
    /\ mt_levels' = SetNew(mt_levels, CvRound.best_dk_js)
    /\ mt_trace' = mt_trace + 1
    /\ UNCHANGED <<cv_pc, cv_params, cv_args, cv_coeffs, cv_single, cv_result>>
    /\ UNCHANGED cvRest

\* and where it is not (list indices must be integers), line 786 raises
\* TypeError after set_new:
MtRoundAcceptRaise ==
    /\ cv_pc = "mt_loop"
    /\ CvRound.ok /\ ~CvRound.raised
    /\ cv_pc' = "raised"
    /\ mt_current' = CvRound.current_val
    /\ mt_levels' = SetNew(mt_levels, CvRound.best_dk_js)
    /\ UNCHANGED <<cv_params, cv_args, cv_coeffs, cv_single, mt_trace, cv_result>>
    /\ UNCHANGED cvRest

CvNext ==
    \/ \E loss \in LOSSES, ordering \in CvOrderings : CvSingle(loss, ordering)
    \/ \E loss \in LOSSES, ordering \in CvOrderings : CvMultiBegin(loss, ordering)
    \/ MtRoundStop
    \/ MtRoundAccept
    \/ MtRoundAcceptRaise

----------------------------------------------------------------------------
(* WParams.calc_pdf (163-186) *)

\* line 177 unpacks every value of the dict (TypeError on None) and line 181
\* takes the min of the positive support counts (ValueError when there is
\* none)
CalcPdfRaises(coeffs) ==
    \/ \E key \in DOMAIN coeffs : coeffs[key] = None
    \/ ~\E key \in DOMAIN coeffs : coeffs[key][3] > 0

\* fun.norm_const = sum([coeff * coeff_b for coeff, coeff_b, num in coeffs.values()])
NormConst(coeffs) ==
    LET keys == KeysInOrder(DOMAIN coeffs)
    IN SumSeq([i \in 1..Len(keys) |-> coeffs[keys[i]][1] * coeffs[keys[i]][2]])

\* the function calc_pdf returns, with the attributes it sets
CalcPdf(coeffs) ==
    [coeffs |-> coeffs, norm_const |-> NormConst(coeffs),
     nparams |-> Cardinality(DOMAIN coeffs), dim |-> WaveDim]

\* xs_sum of fun(coords) at one coordinate x (lines 165-171)
PdfSumAt(fun, x) ==
    LET keys == KeysInOrder(DOMAIN fun.coeffs)
    IN SumSeq([i \in 1..Len(keys) |-> fun.coeffs[keys[i]][1] * FunIx("base", keys[i], x)])

\* fun(coords) at one coordinate x: (xs_sum * xs_sum) / fun.norm_const as the
\* pair of its numerator and denominator.  The division is numpy's: a zero
\* denominator gives inf or nan, not an exception.
PdfAt(fun, x) ==
    LET xs_sum == PdfSumAt(fun, x)
    IN [x |-> x, num |-> xs_sum * xs_sum, den |-> fun.norm_const]

\* the float num / den is >= 0 (nan >= 0 is False; inf and -0.0 are >= 0)
FloatGE0(v) ==
    IF v.den = 0 THEN v.num > 0
    ELSE v.num = 0 \/ v.den > 0

\* Bound of the coefficient sets calc_pdf is tried on
MaxCoeff == 1

PdfKeys == {<<0, 0, -1>>, <<0, 0, 0>>, <<0, 1, 0>>}

\* (coeff, coeff_b, num) as calc_coeffs leaves them: not both coefficients
\* zero, and coeff = 0 when no sample is in the dual function's support
PdfEntries ==
    {e \in ((-MaxCoeff)..MaxCoeff) \X ((-MaxCoeff)..MaxCoeff) \X {0, 1} :
        /\ ~(e[1] = 0 /\ e[2] = 0)
        /\ e[3] = 0 => e[1] = 0}

PdfInit ==
    /\ pdf_pc = "begin"
    /\ \E K \in SUBSET PdfKeys : pdf_arg \in [K -> PdfEntries \cup {None}]
    /\ pdf_fun = <<>>
    /\ pdf_val = <<>>

\* pdf = params.calc_pdf(coeffs)
PdfCall ==
    /\ pdf_pc = "begin"
    /\ IF CalcPdfRaises(pdf_arg)
       THEN pdf_pc' = "raised" /\ UNCHANGED pdf_fun
       ELSE pdf_pc' = "returned" /\ pdf_fun' = CalcPdf(pdf_arg)
    /\ UNCHANGED <<pdf_arg, pdf_val>>
    /\ UNCHANGED pdfRest

\* pdf(coords) at the coordinate x
PdfEval(x) ==
    /\ pdf_pc \in {"returned", "evaluated"}
    /\ pdf_pc' = "evaluated"
    /\ pdf_val' = PdfAt(pdf_fun, x)
    /\ UNCHANGED <<pdf_arg, pdf_fun>>
    /\ UNCHANGED pdfRest

PdfNext ==
    \/ PdfCall
    \/ \E x \in 0..(GridCells - 1) : PdfEval(x)

----------------------------------------------------------------------------
(* WParams on samples (square_root_estimator.py 69-159, 236-298).            *)
(*                                                                           *)
(* The samples are positions 0..GridCells-1 of the wavelet's grid, a list    *)
(* xs of n of them.  Floats are kept in fixed point: a ball volume is        *)
(* dist^(dim/2) in hundredths (the factor sqrt_vunit, common to all, is the  *)
(* unit), omega(n) is sqrt(n-1)/n in hundredths (gamma(k)/gamma(k+0.5) is    *)
(* the unit), and a coefficient is their product.  Two coefficients of the   *)
(* model differ only if the sums they stand for differ.                      *)

\* math.sqrt(d) in hundredths, d = 0..8
SqrtCenti(d) == <<0, 100, 141, 173, 200, 224, 245, 265, 283>>[d + 1]

\* omega(n) = math.sqrt(n - 1) * gamma(k) / gamma(k + 0.5) / n
omega(n) == SqrtCenti(n - 1) \div n

\* np.amin(xs, axis=0) and np.amax(xs, axis=0)
AMin(xs) == CHOOSE v \in {xs[i] : i \in 1..Len(xs)} : \A i \in 1..Len(xs) : v <= xs[i]

AMax(xs) == CHOOSE v \in {xs[i] : i \in 1..Len(xs)} : \A i \in 1..Len(xs) : v >= xs[i]

\* np.delete(xs, ix, axis=0)
Delete(s, ix) == [i \in 1..(Len(s) - 1) |-> IF i <= ix THEN s[i] ELSE s[i + 1]]

\* self.wave.qq[0:1] and self.wave.qq[1:] in one dimension
QqAlpha == {0}

QqBeta == {1}

\* BallTree(xs).query(xs, m)[1]: for every sample the indices of its m
\* nearest samples by increasing distance, itself first.  The order of
\* samples at the same distance is the tree's; every such order is a tree.
BallTreeRows(xs, i, m) ==
    {r \in [1..m -> 0..(Len(xs) - 1)] :
        /\ r[1] = i
        /\ \A a, b \in 1..m : a < b =>
              /\ r[a] # r[b]
              /\ Abs(xs[i + 1] - xs[r[a] + 1]) <= Abs(xs[i + 1] - xs[r[b] + 1])
        /\ \A o \in 0..(Len(xs) - 1) :
              (\A a \in 1..m : r[a] # o)
                  => Abs(xs[i + 1] - xs[o + 1]) >= Abs(xs[i + 1] - xs[r[m] + 1])}

BallTrees(xs, m) ==
    {t \in [1..Len(xs) -> UNION {BallTreeRows(xs, i, m) : i \in 0..(Len(xs) - 1)}] :
        \A i \in 1..Len(xs) : t[i] \in BallTreeRows(xs, i - 1, m)}

\* calculate_nearest_balls: dist[:, -2:] to the power dim/2 (dim = 1)
CalculateNearestBalls(xs, tree) ==
    LET dist(i, c) == Abs(xs[i] - xs[Nth(tree[i], c) + 1])
    IN [xs_balls     |-> [i \in 1..Len(xs) |-> SqrtCenti(dist(i, -2))],
        xs_balls2    |-> [i \in 1..Len(xs) |-> SqrtCenti(dist(i, -1))],
        xs_balls_inx |-> tree]

\* _calc_indexes_j(j, qxs): a placeholder None for every key of level j that
\* is not in the store yet
CalcIndexesJ(coeffs, j, qxs, minx, maxx) ==
    LET zs_min == Min2(ZRange("dual", j, minx, maxx)[1], ZRange("base", j, minx, maxx)[1])
        zs_max == Max2(ZRange("dual", j, minx, maxx)[2], ZRange("base", j, minx, maxx)[2])
        keys == {<<j, qx, zs>> : qx \in qxs, zs \in zs_min..zs_max}
    IN [key \in DOMAIN coeffs \cup keys |->
           IF key \in DOMAIN coeffs THEN coeffs[key] ELSE None]

\* the betas of the levels from..(from + count - 1), level by level
RECURSIVE CalcBetaIndexes(_, _, _, _, _)
CalcBetaIndexes(coeffs, from, count, minx, maxx) ==
    IF count = 0 THEN coeffs
    ELSE CalcBetaIndexes(CalcIndexesJ(coeffs, from, QqBeta, minx, maxx),
                         from + 1, count - 1, minx, maxx)

\* _calc_indexes(with_betas) on the empty store of a new WParams
CalcIndexes(with_betas, delta_j, minx, maxx) ==
    LET alphas == CalcIndexesJ(<<>>, 0, QqAlpha, minx, maxx)
    IN IF with_betas THEN CalcBetaIndexes(alphas, 0, delta_j, minx, maxx) ELSE alphas

\* WParams(wde, with_betas)
WParams(k, delta_j, minx, maxx, with_betas) ==
    [k |-> k, delta_j |-> delta_j, minx |-> minx, maxx |-> maxx,
     coeffs |-> CalcIndexes(with_betas, delta_j, minx, maxx),
     n |-> 0, xs_balls |-> None, xs_balls2 |-> None, xs_balls_inx |-> None]

\* pre_coeffs(xs)
PreCoeffs(params, xs, tree) ==
    LET balls == CalculateNearestBalls(xs, tree)
    IN [params EXCEPT !.n = Len(xs), !.xs_balls = balls.xs_balls,
                      !.xs_balls2 = balls.xs_balls2, !.xs_balls_inx = balls.xs_balls_inx]

\* The body of the loops of calc_coeffs and calc_coeffs_loo for one key:
\* (coeff, coeff_b, num) from the samples xs with the volumes balls
CoeffTuple(key, xs, balls, om) ==
    <<SumSeq([i \in 1..Len(xs) |-> FunIx("dual", key, xs[i]) * balls[i]]) * om,
      SumSeq([i \in 1..Len(xs) |-> FunIx("base", key, xs[i]) * balls[i]]) * om,
      Cardinality({i \in 1..Len(xs) : SuppIx("dual", key, xs[i])})>>

\* a floor no coefficient is below
NoFloor(tup) == FALSE

\* math.fabs(coeff) < 1.0e-7 and math.fabs(coeff_b) < 1.0e-7
BelowFloor(tup) == tup[1] = 0 /\ tup[2] = 0

\* both loops as if they had no `if self.coeffs[key] is not None: continue`
FillStoreAll(coeffs, xs, balls, om) ==
    LET kept == {key \in DOMAIN coeffs : ~BelowFloor(CoeffTuple(key, xs, balls, om))}
    IN [key \in kept |-> CoeffTuple(key, xs, balls, om)]

\* Both loops: an entry that is not None is left alone; a None entry is
\* computed, and removed when both coefficients are below the floor
FillStore(coeffs, xs, balls, om) ==
    LET kept == {key \in DOMAIN coeffs :
                    coeffs[key] # None \/ ~BelowFloor(CoeffTuple(key, xs, balls, om))}
    IN [key \in kept |->
           IF coeffs[key] # None THEN coeffs[key] ELSE CoeffTuple(key, xs, balls, om)]

\* calc_coeffs(xs): the new self.coeffs
CalcCoeffs(params, xs) ==
    FillStore(params.coeffs, xs, params.xs_balls, omega(params.n))

\* lines 132-141 of calc_coeffs_loo: the volumes of the samples other than
\* ix_loo
LooBalls(params, ix_loo) ==
    Delete([i \in 1..params.n |->
               IF Nth(params.xs_balls_inx[i], -2) = ix_loo
               THEN params.xs_balls2[i] ELSE params.xs_balls[i]], ix_loo)

\* calc_coeffs_loo(xs, ix_loo): the new self.coeffs
CalcCoeffsLoo(params, xs, ix_loo) ==
    FillStore(params.coeffs, Delete(xs, ix_loo), LooBalls(params, ix_loo),
              omega(params.n - 1))

----------------------------------------------------------------------------
(* WaveletDensityEstimator (square root), call by call: fit, cvfit, iterfit   *)
(* and best_j (305-598) on the sample object xs.  self.params and            *)
(* self._params are always the same object here, so est_params stands for    *)
(* both.  best_j is followed through its loops; the other calls are one      *)
(* step each.                                                                *)

\* Bounds of the samples and of the estimator's configuration
EstN == 3

EstKs == {1}

EstDeltaJs == {0, 1}

\* `if ini_j > 8` in best_j
BestJLastLevel == 8

\* lines 329-337 of _fitinit and 371-379 of _iterinit, taken when
\* `self._xs is xs` does not hold
InitParams(xs, tree, k, delta_j, with_betas) ==
    LET fresh == PreCoeffs(WParams(k, delta_j, AMin(xs), AMax(xs), with_betas), xs, tree)
    IN [fresh EXCEPT !.coeffs = CalcCoeffs(fresh, xs)]

\* The sample objects the calls are made with: xs, and ys, a matrix with the
\* same rows and one more column than the wavelet has dimensions
EstSamples == {"xs", "ys"}

\* xs.shape[1]
Shape1(arg) == IF arg = "xs" THEN WaveDim ELSE WaveDim + 1

\* a dimension check that never fails
NoDimMismatch(arg) == FALSE

\* self.wave.dim != xs.shape[1]
DimMismatch(arg) == WaveDim # Shape1(arg)

\* self._xs is xs
Cached(arg) == est_ref = arg

\* _fitinit(xs) / _iterinit(xs) raise ValueError (lines 329-330, 371-372)
FitInitRaises(arg) == ~Cached(arg) /\ DimMismatch(arg)

\* self.params after _fitinit(xs) / _iterinit(xs) when they do not raise
FitInit(arg, with_betas) ==
    IF Cached(arg) THEN est_params
    ELSE InitParams(est_xs, est_tree, est_cfg.k, est_delta_j, with_betas)

\* self.pdf seen from the model: the function calc_pdf returned (CalcPdf) and
\* whether its dict `coeffs` is still self.params.coeffs (live).  For cvfit
\* and iterfit, whose selection depends on calc_terms, fun.coeffs is the part
\* of the dict that is always selected and `among` the keys selected from.
FitPdf(coeffs) == [kind |-> "fit", live |-> TRUE, fun |-> CalcPdf(coeffs), among |-> {}]

SelectedPdf(kind, coeffs, among) ==
    [kind |-> kind, live |-> FALSE, fun |-> CalcPdf(coeffs), among |-> among]

\* self.pdf once self.params.coeffs is another dict than the one it reads
Detached(pdf) == IF pdf = None THEN None ELSE [pdf EXCEPT !.live = FALSE]

\* A function calc_pdf returned earlier, after a call: calc_pdf's `fun` reads
\* the dict it was given (line 166), not a copy.  When self.params is still
\* the same WParams, a function made from self.params.coeffs reads what the
\* dict holds now; fun.norm_const and fun.nparams are set once (177-179).
Alias(pdf, same_params, coeffs) ==
    IF pdf = None THEN None
    ELSE IF ~pdf.live THEN pdf
    ELSE IF same_params THEN [pdf EXCEPT !.fun.coeffs = coeffs]
    ELSE Detached(pdf)

\* the function the caller kept, after a call
HeldAfter(same_params, coeffs) ==
    IF est_held = None THEN None
    ELSE [est_held EXCEPT !.now = Alias(est_held.now, same_params, coeffs)]

\* the entries the scans of calc_pdf_cv and calc_iter_pdf do not skip
Nonzero(coeffs) == [key \in ScannedKeys(coeffs) |-> coeffs[key]]

\* a call and how it ended
Call(op, arg, opts, raised) == [op |-> op, arg |-> arg, opts |-> opts, raised |-> raised]

EstInit ==
    /\ est_pc = "idle"
    /\ est_xs \in {xs \in [1..EstN -> 0..(GridCells - 1)] :
                        \A i \in 1..(EstN - 1) : xs[i] <= xs[i + 1]}
    /\ \E k \in EstKs, delta_j \in EstDeltaJs :
          /\ est_cfg = [k |-> k, delta_j |-> delta_j]
          /\ est_delta_j = delta_j
          /\ est_tree \in BallTrees(est_xs, k + 2)
    /\ est_ref = "None"
    /\ est_params = None
    /\ est_pdf = None
    /\ est_held = None
    /\ est_call = Call("__init__", "None", <<>>, FALSE)
    /\ bj_ini_j = 0
    /\ bj_ix = 0

\* fit(xs), lines 356-364
EstFit(arg) ==
    /\ est_pc = "idle"
    /\ IF FitInitRaises(arg)
       THEN /\ est_call' = Call("fit", arg, <<>>, TRUE)
            /\ UNCHANGED <<est_ref, est_params, est_pdf, est_held>>
       ELSE LET params == FitInit(arg, TRUE)
            IN /\ est_params' = params
               /\ est_ref' = arg
               /\ est_held' = HeldAfter(Cached(arg), params.coeffs)
               /\ IF CalcPdfRaises(params.coeffs)
                  THEN /\ est_pdf' = Alias(est_pdf, Cached(arg), params.coeffs)
                       /\ est_call' = Call("fit", arg, <<>>, TRUE)
                  ELSE /\ est_pdf' = FitPdf(params.coeffs)
                       /\ est_call' = Call("fit", arg, <<>>, FALSE)
    /\ UNCHANGED <<est_pc, est_xs, est_tree, est_cfg, est_delta_j, bj_ini_j, bj_ix>>
    /\ UNCHANGED estRest

\* options every loss and ordering passes as
AnyOptions(loss, ordering) == TRUE

\* loss in LOSSES and ordering in ORDERINGS (lines 394-397)
ValidOptions(loss, ordering) == loss \in LOSSES /\ ordering \in ORDERINGS

\* the losses and orderings cvfit is called with: a valid one and one that
\* LOSSES / ORDERINGS do not hold (RT_ORD is no key of ORDERINGS)
EstLosses == {NEW_LOSS, "Hellinger"}

EstOrderings == {"QTerm", "RefTao"}

\* cvfit(xs, loss, ordering, is_single) with a loss or an ordering that is
\* not one of LOSSES / ORDERINGS, lines 394-397
EstCvFitWrongOption(arg, loss, ordering) ==
    /\ est_pc = "idle"
    /\ ~ValidOptions(loss, ordering)
    /\ est_call' = Call("cvfit", arg, <<loss, ordering>>, TRUE)
    /\ UNCHANGED <<est_pc, est_xs, est_tree, est_cfg, est_delta_j, est_ref, est_params,
                   est_pdf, est_held, bj_ini_j, bj_ix>>
    /\ UNCHANGED estRest

\* cvfit(xs, loss, ordering, is_single) with valid options, lines 398-406.
\* calc_pdf_cv raises when self.delta_j == 0; otherwise it selects the alphas
\* with coeff # 0 and some of the betas with coeff # 0 (see SpecCV for the
\* selection), unless it raises on the way (raises = TRUE).
EstCvFit(arg, loss, ordering, raises) ==
    /\ est_pc = "idle"
    /\ ValidOptions(loss, ordering)
    /\ IF FitInitRaises(arg)
       THEN /\ ~raises
            /\ est_call' = Call("cvfit", arg, <<loss, ordering>>, TRUE)
            /\ UNCHANGED <<est_ref, est_params, est_pdf, est_held>>
       ELSE LET params == FitInit(arg, TRUE)
                scanned == Nonzero(params.coeffs)
                alphas == [key \in {key \in DOMAIN scanned : IsAlpha(key)} |-> scanned[key]]
                betas == {key \in DOMAIN scanned : ~IsAlpha(key)}
            IN /\ est_params' = params
               /\ est_ref' = arg
               /\ est_held' = HeldAfter(Cached(arg), params.coeffs)
               /\ IF est_delta_j = 0 \/ raises \/ DOMAIN scanned = {}
                  THEN /\ est_pdf' = Alias(est_pdf, Cached(arg), params.coeffs)
                       /\ est_call' = Call("cvfit", arg, <<loss, ordering>>, TRUE)
                  ELSE /\ est_pdf' = SelectedPdf("cvfit", alphas, betas)
                       /\ est_call' = Call("cvfit", arg, <<loss, ordering>>, FALSE)
    /\ UNCHANGED <<est_pc, est_xs, est_tree, est_cfg, est_delta_j, bj_ini_j, bj_ix>>
    /\ UNCHANGED estRest

\* max_lvl of calc_iter_pdf: 0 or the level of an accepted beta, which is
\* below self.delta_j <= max(1, delta_j of the constructor)
EstMaxLvls == 0..1

\* iterfit(xs), lines 381-389 and calc_iter_pdf.  Line 502 raises when the
\* sum of coeff * coeff_b over the scanned entries is <= 0.  Then the store
\* gets the betas of the levels 0..self.delta_j-1 (lines 528-530); math.sqrt
\* of line 561 raises when a candidate brings that sum to <= 0; the greedy
\* loop, which depends on calc_terms, adds some of the candidates to the
\* scanned entries while fewer than 0.99 n are retained, and self.delta_j
\* becomes max_lvl + 1, max_lvl the highest level of an accepted beta or 0.
EstIterFit(arg, max_lvl) ==
    /\ est_pc = "idle"
    /\ IF FitInitRaises(arg)
       THEN /\ max_lvl = 0
            /\ est_call' = Call("iterfit", arg, <<>>, TRUE)
            /\ UNCHANGED <<est_delta_j, est_ref, est_params, est_pdf, est_held>>
       ELSE LET params == FitInit(arg, FALSE)
                scanned == Nonzero(params.coeffs)
                extended == [params EXCEPT !.coeffs =
                                CalcBetaIndexes(params.coeffs, 0, est_delta_j,
                                                params.minx, params.maxx)]
                filled == [extended EXCEPT !.coeffs = CalcCoeffs(extended, est_xs)]
                candidates == {key \in ScannedKeys(filled.coeffs) : ~IsAlpha(key)}
                room == 100 * Cardinality(DOMAIN scanned) < 99 * params.n
                open == IF room THEN candidates ELSE {}
            IN /\ est_ref' = arg
               /\ max_lvl \in {0} \cup {KeyJ(key) : key \in open}
               /\ IF NormConst(scanned) <= 0
                  THEN /\ max_lvl = 0
                       /\ est_params' = params
                       /\ est_pdf' = Alias(est_pdf, Cached(arg), params.coeffs)
                       /\ est_held' = HeldAfter(Cached(arg), params.coeffs)
                       /\ est_delta_j' = est_delta_j
                       /\ est_call' = Call("iterfit", arg, <<>>, TRUE)
                  ELSE IF \E key \in open :
                             NormConst(scanned)
                                 + filled.coeffs[key][1] * filled.coeffs[key][2] <= 0
                  THEN /\ max_lvl = 0
                       /\ est_params' = filled
                       /\ est_pdf' = Alias(est_pdf, Cached(arg), filled.coeffs)
                       /\ est_held' = HeldAfter(Cached(arg), filled.coeffs)
                       /\ est_delta_j' = est_delta_j
                       /\ est_call' = Call("iterfit", arg, <<>>, TRUE)
                  ELSE /\ est_params' = filled
                       /\ est_delta_j' = max_lvl + 1
                       /\ est_pdf' = SelectedPdf("iterfit", scanned, open \ DOMAIN scanned)
                       /\ est_held' = HeldAfter(Cached(arg), filled.coeffs)
                       /\ est_call' = Call("iterfit", arg, <<>>, FALSE)
    /\ UNCHANGED <<est_pc, est_xs, est_tree, est_cfg, bj_ini_j, bj_ix>>
    /\ UNCHANGED estRest

\* best_j(xs), lines 443-470: the dimension check, and then up to the first
\* pass of the loop over the samples.  The new WParams has the alphas of
\* level 0 as placeholders; line 468 replaces its dict and line 469 indexes
\* level ini_j = 0.
EstBestJ(arg) ==
    /\ est_pc = "idle"
    /\ IF DimMismatch(arg)
       THEN /\ est_call' = Call("best_j", arg, <<>>, TRUE)
            /\ UNCHANGED <<est_pc, est_ref, est_params, est_pdf, est_held, bj_ini_j, bj_ix>>
       ELSE /\ LET params == PreCoeffs(WParams(est_cfg.k, est_delta_j, AMin(est_xs),
                                               AMax(est_xs), FALSE), est_xs, est_tree)
               IN est_params' = [params EXCEPT !.coeffs =
                                    CalcIndexesJ(<<>>, 0, QqAlpha, params.minx, params.maxx)]
            /\ est_ref' = arg
            /\ est_pdf' = Detached(est_pdf)
            /\ est_held' = HeldAfter(FALSE, <<>>)
            /\ est_pc' = "best_j"
            /\ est_call' = Call("best_j", arg, <<>>, FALSE)
            /\ bj_ini_j' = 0
            /\ bj_ix' = 0
    /\ UNCHANGED <<est_xs, est_tree, est_cfg, est_delta_j>>
    /\ UNCHANGED estRest

\* One pass of the loop of lines 471-477, for ix = bj_ix: calc_coeffs_loo,
\* calc_pdf (which raises when no entry has num > 0) and the value at x
EstBestJLoo ==
    /\ est_pc = "best_j"
    /\ bj_ix < est_params.n
    /\ LET coeffs == CalcCoeffsLoo(est_params, est_xs, bj_ix)
       IN /\ est_params' = [est_params EXCEPT !.coeffs = coeffs]
          /\ IF CalcPdfRaises(coeffs)
             THEN /\ est_pc' = "idle"
                  /\ est_call' = [est_call EXCEPT !.raised = TRUE]
                  /\ UNCHANGED bj_ix
             ELSE /\ bj_ix' = bj_ix + 1
                  /\ UNCHANGED <<est_pc, est_call>>
    /\ UNCHANGED <<est_xs, est_tree, est_cfg, est_delta_j, est_ref, est_pdf, est_held,
                   bj_ini_j>>
    /\ UNCHANGED estRest

\* lines 478-483 and, for the next level, 467-470
EstBestJLevel ==
    /\ est_pc = "best_j"
    /\ bj_ix = est_params.n
    /\ IF bj_ini_j + 1 > BestJLastLevel
       THEN /\ est_pc' = "idle"
            /\ UNCHANGED <<est_params, bj_ini_j, bj_ix>>
       ELSE /\ est_params' = [est_params EXCEPT !.coeffs =
                                 CalcIndexesJ(<<>>, bj_ini_j + 1, QqAlpha,
                                                est_params.minx, est_params.maxx)]
            /\ bj_ini_j' = bj_ini_j + 1
            /\ bj_ix' = 0
            /\ UNCHANGED est_pc
    /\ UNCHANGED <<est_xs, est_tree, est_cfg, est_delta_j, est_ref, est_pdf, est_held,
                   est_call>>
    /\ UNCHANGED estRest

\* est.fit(xs); f = est.pdf: the caller keeps the function fit made, `then`
\* as it is when kept and `now` as it is at present
EstHold ==
    /\ est_pc = "idle"
    /\ est_call = Call("fit", "xs", <<>>, FALSE)
    /\ est_held = None
    /\ est_held' = [now |-> est_pdf, then |-> est_pdf.fun]
    /\ UNCHANGED <<est_pc, est_xs, est_tree, est_cfg, est_delta_j, est_ref, est_params,
                   est_pdf, est_call, bj_ini_j, bj_ix>>
    /\ UNCHANGED estRest

EstNext ==
    \/ \E arg \in EstSamples : EstFit(arg)
    \/ \E arg \in EstSamples, loss \in EstLosses, ordering \in EstOrderings :
          EstCvFitWrongOption(arg, loss, ordering)
    \/ \E arg \in EstSamples, loss \in EstLosses, ordering \in EstOrderings,
          raises \in BOOLEAN : EstCvFit(arg, loss, ordering, raises)
    \/ \E arg \in EstSamples, max_lvl \in EstMaxLvls : EstIterFit(arg, max_lvl)
    \/ \E arg \in EstSamples : EstBestJ(arg)
    \/ EstBestJLoo
    \/ EstBestJLevel

\* the calls, and the caller keeping a function
HeldNext == EstNext \/ EstHold

----------------------------------------------------------------------------
(* The leave-one-out ball volumes: lines 132-141 of calc_coeffs_loo and        *)
(* balls_no_i of spwde.py (119-128), on the neighbours that                    *)
(* BallTree(xs).query(xs, k + 2) returns (calculate_nearest_balls, and         *)
(* calc_sqrt_vs of spwde.py, 149-159).                                         *)

\* Bounds of the samples
LooN == 4

LooKs == {1, 2}

\* The trees of xs row by row: rows[i] a row of sample i - 1
RECURSIVE LooTrees(_, _, _)
LooTrees(xs, m, upto) ==
    IF upto = 0 THEN {<<>>}
    ELSE {Append(t, r) : t \in LooTrees(xs, m, upto - 1),
                         r \in BallTreeRows(xs, upto - 1, m)}

\* calc_sqrt_vs(xs, k): BallsInfo(sqrt_vol_k, sqrt_vol_k_plus_1, nn_indexes)
CalcSqrtVs(xs, tree) ==
    LET balls == CalculateNearestBalls(xs, tree)
    IN [sqrt_vol_k |-> balls.xs_balls, sqrt_vol_k_plus_1 |-> balls.xs_balls2,
        nn_indexes |-> balls.xs_balls_inx]

\* balls_no_i(balls_info, i): `i in balls_info.nn_indexes[i_prim, :-1]`
BallsNoI(balls_info, i) ==
    [i_prim \in 1..Len(balls_info.nn_indexes) |->
        IF \E c \in 1..(Len(balls_info.nn_indexes[i_prim]) - 1) :
              balls_info.nn_indexes[i_prim][c] = i
        THEN balls_info.sqrt_vol_k_plus_1[i_prim]
        ELSE balls_info.sqrt_vol_k[i_prim]]

LooInit ==
    /\ loo_pc = "given"
    /\ \E k \in LooKs :
       \E xs \in {xs \in [1..LooN -> 0..(GridCells - 1)] :
                     \A i \in 1..(LooN - 1) : xs[i] <= xs[i + 1]} :
       \E tree \in LooTrees(xs, k + 2, LooN) :
          loo_in = [xs |-> xs, k |-> k, tree |-> tree]
    /\ loo_ix = 0
    /\ loo_balls = <<>>
    /\ loo_no_ix = 0
    /\ loo_no_i = <<>>

\* pre_coeffs(xs), then lines 132-141 of calc_coeffs_loo(xs, ix_loo)
LooCoeffs(ix_loo) ==
    /\ loo_pc \in {"given", "done"}
    /\ ix_loo < Len(loo_in.xs)
    /\ loo_pc' = "done"
    /\ loo_ix' = ix_loo
    /\ loo_balls' = LooBalls(PreCoeffs([n |-> 0, xs_balls |-> None, xs_balls2 |-> None,
                                         xs_balls_inx |-> None], loo_in.xs, loo_in.tree),
                              ix_loo)
    /\ UNCHANGED <<loo_in, loo_no_ix, loo_no_i>>
    /\ UNCHANGED looRest

\* calc_sqrt_vs(xs, k), then balls_no_i(balls_info, i)
LooNoI(i) ==
    /\ loo_pc \in {"given", "done"}
    /\ i < Len(loo_in.xs)
    /\ loo_pc' = "done"
    /\ loo_no_ix' = i
    /\ loo_no_i' = BallsNoI(CalcSqrtVs(loo_in.xs, loo_in.tree), i)
    /\ UNCHANGED <<loo_in, loo_ix, loo_balls>>
    /\ UNCHANGED looRest

LooNext ==
    \/ \E ix_loo \in 0..(LooN - 1) : LooCoeffs(ix_loo)
    \/ \E i \in 0..(LooN - 1) : LooNoI(i)

----------------------------------------------------------------------------
(* calc_iter_pdf (486-598), the greedy phase of iterfit, step by step.  The   *)
(* store is what _iterinit left in self.params: a new WParams with the alphas *)
(* only, or the cached one, which may hold betas of earlier calls.  An entry  *)
(* is kept as the two numbers calc_terms gives for its key: the contribution  *)
(* q = term1 - term2 + term3 and the norm term n2 = coeff2.  Entries whose    *)
(* coeff is 0.0 are skipped by both scans (495, 547) and are left out.        *)

\* Bounds of the stores the greedy phase is tried on
ItNs == {2, 3, 4}

ItDeltaJs == {0, 1, 2}

ItAlphaKeys == {<<0, 0, 0>>, <<0, 0, 1>>}

ItBetaKeys == {<<0, 1, 0>>, <<0, 1, 1>>, <<1, 1, 0>>}

ItAlphaTerms == {[q |-> 0, n2 |-> 1], [q |-> 1, n2 |-> 2]}

ItBetaTerms ==
    {[q |-> 2, n2 |-> 1], [q |-> 1, n2 |-> 3], [q |-> -1, n2 |-> 1], [q |-> 1, n2 |-> -1]}

\* `store`: the non-zero entries of self.params.coeffs at the call; `fresh`:
\* the non-zero entries lines 541-543 add.  calc_indexes_j indexes the levels
\* 0..delta_j-1 in turn and adds only keys that are not there, so what is
\* added lies above every level the store has betas of.
ItInit ==
    /\ it_pc = "begin"
    /\ \E n \in ItNs, delta_j \in ItDeltaJs :
       \E A \in SUBSET ItAlphaKeys, B \in SUBSET ItBetaKeys, F \in SUBSET ItBetaKeys :
       \E ap \in [A -> ItAlphaTerms], bp \in [B \cup F -> ItBetaTerms] :
          /\ B \cap F = {}
          /\ \A f \in F : KeyJ(f) < delta_j /\ \A b \in B : KeyJ(b) < KeyJ(f)
          /\ it_params = [store |-> [key \in A \cup B |->
                                        IF key \in A THEN ap[key] ELSE bp[key]],
                          fresh |-> [key \in F |-> bp[key]],
                          n |-> n, delta_j |-> delta_j]
          /\ it_delta_j = delta_j
    /\ it_coeffs = {}
    /\ it_loss = <<>>
    /\ it_contributions = <<>>
    /\ it_max_lvl = 0
    /\ it_accepted = <<>>
    /\ it_stop = "none"

\* the sums of the loop of lines 493-501 over a store: <<contribution, norm>>
ItSums(store) ==
    LET keys == KeysInOrder(DOMAIN store)
    IN <<SumSeq([i \in 1..Len(keys) |-> store[keys[i]].q]),
         SumSeq([i \in 1..Len(keys) |-> store[keys[i]].n2])>>

\* the list `contributions` of lines 544-555 (lvl_j = 0): the betas of the
\* store after lines 541-543, in the dict's order
ItCandidates(params) ==
    LET all  == [key \in DOMAIN params.store \cup DOMAIN params.fresh |->
                    IF key \in DOMAIN params.store THEN params.store[key]
                    ELSE params.fresh[key]]
        keys == KeysInOrder({key \in DOMAIN all : ~IsAlpha(key)})
    IN [i \in 1..Len(keys) |-> [key |-> keys[i], q |-> all[keys[i]].q,
                                 n2 |-> all[keys[i]].n2]]

\* lines 487-556: the first scan, the loss of line 502 (math.sqrt raises for
\* a negative alpha_norm, the division for 0.0), the extension of the store
\* and the list of candidates
ItBegin ==
    /\ it_pc = "begin"
    /\ it_coeffs' = DOMAIN it_params.store
    /\ it_loss' = ItSums(it_params.store)
    /\ IF ItSums(it_params.store)[2] <= 0
       THEN /\ it_pc' = "raised"
            /\ UNCHANGED it_contributions
       ELSE /\ it_pc' = "greedy"
            /\ it_contributions' = ItCandidates(it_params)
    /\ UNCHANGED <<it_params, it_max_lvl, it_accepted, it_stop, it_delta_j>>
    /\ UNCHANGED itRest

\* stopping rule A (558): len(coeffs) >= self.params.n * samples_perc
ItCap == 100 * Cardinality(it_coeffs) >= 99 * it_params.n

\* <<contribution + c, norm2 + n2>> for candidate i (1-based)
ItAfter(i) ==
    <<it_loss[1] + it_contributions[i].q, it_loss[2] + it_contributions[i].n2>>

\* computing `vals` (562-568) raises: math.sqrt(norm2 + coeff_norm2)
ItValsRaise == \E i \in 1..Len(it_contributions) : ItAfter(i)[2] <= 0

\* a[1] / sqrt(a[2]) > b[1] / sqrt(b[2])
ItGreater(a, b) == SqrtScaledLT(b[1], a[2], a[1], b[2])

\* ix = np.argmax(vals) (569): the first candidate no other one beats
ItArgmax ==
    CHOOSE i \in 1..Len(it_contributions) :
        /\ \A o \in 1..Len(it_contributions) : ~ItGreater(ItAfter(o), ItAfter(i))
        /\ \A o \in 1..(i - 1) : ItGreater(ItAfter(i), ItAfter(o))

\* 0 < 1 - v[1] / sqrt(v[2])
ItPositive(v) == SqrtScaledLT(v[1], 1, 1, v[2])

\* the test of line 573 with the `0 <` left out
AcceptsBelow(new_loss, loss) == LossLT(NORMED_LOSS, new_loss, loss)

\* line 573: `if 0 < new_loss < loss`
Accepts(new_loss, loss) == ItPositive(new_loss) /\ LossLT(NORMED_LOSS, new_loss, loss)

\* the greedy loop gets as far as the test of line 573
ItTests == Len(it_contributions) > 0 /\ ~ItCap /\ ~ItValsRaise

\* one pass of the greedy loop that accepts candidate ix (573-586)
ItAccept ==
    /\ it_pc = "greedy"
    /\ ItTests
    /\ Accepts(ItAfter(ItArgmax), it_loss)
    /\ LET ix == ItArgmax
           the_key == it_contributions[ix].key
       IN /\ it_max_lvl' = Max2(it_max_lvl, KeyJ(the_key))
          /\ it_loss' = ItAfter(ix)
          /\ it_coeffs' = it_coeffs \cup {the_key}
          /\ it_accepted' = Append(it_accepted, the_key)
          /\ it_contributions' = [i \in 1..(Len(it_contributions) - 1) |->
                                     IF i < ix THEN it_contributions[i]
                                     ELSE it_contributions[i + 1]]
    /\ UNCHANGED <<it_pc, it_params, it_stop, it_delta_j>>
    /\ UNCHANGED itRest

\* the pass that leaves the greedy loop (555-557, 558-561 or 587-589), and
\* then lines 590-598: the outer loop ends and self.delta_j = max_lvl + 1
ItFinish ==
    /\ it_pc = "greedy"
    /\ \/ Len(it_contributions) = 0 /\ it_stop' = "exhausted"
       \/ Len(it_contributions) > 0 /\ ItCap /\ it_stop' = "cap"
       \/ ItTests /\ ~Accepts(ItAfter(ItArgmax), it_loss) /\ it_stop' = "rejected"
    /\ it_delta_j' = it_max_lvl + 1
    /\ it_pc' = "returned"
    /\ UNCHANGED <<it_params, it_coeffs, it_loss, it_contributions, it_max_lvl,
                   it_accepted>>
    /\ UNCHANGED itRest

\* the pass in which math.sqrt(norm2 + coeff_norm2) raises (562-568)
ItRaise ==
    /\ it_pc = "greedy"
    /\ Len(it_contributions) > 0 /\ ~ItCap /\ ItValsRaise
    /\ it_pc' = "raised"
    /\ UNCHANGED <<it_params, it_coeffs, it_loss, it_contributions, it_max_lvl,
                   it_accepted, it_stop, it_delta_j>>
    /\ UNCHANGED itRest

ItNext ==
    \/ ItBegin
    \/ ItAccept
    \/ ItFinish
    \/ ItRaise

----------------------------------------------------------------------------
(* log_estimator.py: the MDL estimator.                                      *)
(*                                                                           *)
(* A log-likelihood, a penalty and their sum are floats; the model keeps     *)
(* them in thousandths, as [inf |-> FALSE, m |-> thousandths] or +inf        *)
(* (-log(0) of a sample at which the density is 0).  A threshold             *)
(* |v| / sqrt(j + 1) is kept as [v |-> |v|, j |-> j] and compared on the     *)
(* squares.                                                                  *)

\* GN_NUM = 35
GN_NUM == 35

Fin(m) == [inf |-> FALSE, m |-> m]

PosInf == [inf |-> TRUE, m |-> 0]

\* a + b and a < b on floats that are finite or +inf
NumAdd(a, b) == IF a.inf \/ b.inf THEN PosInf ELSE Fin(a.m + b.m)

NumLT(a, b) == ~a.inf /\ (b.inf \/ a.m < b.m)

\* math.log(n) and loggamma(k / 2), in thousandths
LogMilli(n) ==
    CASE n = 2 -> 693 [] n = 36 -> 3584 [] n = 37 -> 3611 [] n = 38 -> 3638

LogGammaHalfMilli(k) ==
    <<572, 0, -121, 0, 285, 693, 1201, 1792, 2454, 3178, 3958, 4787>>[k]

\* math.log(c * math.pi), in thousandths
LogPiTimesMilli(c) == CASE c = 1 -> 1145 [] c = 2 -> 1838

\* math.log(2) + k/2 * math.log(math.pi) - loggamma(k/2)
log_riemann_volume_class(k) ==
    LogMilli(2) + ((k * LogPiTimesMilli(1)) \div 2) - LogGammaHalfMilli(k)

\* (k/2) * math.log(2 * math.pi / n)
log_riemann_volume_param(k, n) == (k * (LogPiTimesMilli(2) - LogMilli(n))) \div 2

\* penalty = log_riemann_volume_class(k) - log_riemann_volume_param(k, self.n)
Penalty(k, n) == Fin(log_riemann_volume_class(k) - log_riemann_volume_param(k, n))

\* ifpos: the values v with math.fabs(v) > 0
ifpos(coeffs, keys) == {key \in keys : Abs(coeffs[key]) > 0}

LogAlphaKeys(coeffs) == {key \in DOMAIN coeffs : IsAlpha(key)}

\* a.v / sqrt(a.j + 1) < b.v / sqrt(b.j + 1), for a.v, b.v >= 0
ThLT(a, b) == a.v * a.v * (b.j + 1) < b.v * b.v * (a.j + 1)

\* calc_pdf_mdl, lines 149-158: the betas of the levels below delta_j in loop
\* order, without those with math.fabs(v) == 0
LogBetas(coeffs, nums, delta_j) ==
    LET keys == KeysInOrder({key \in DOMAIN coeffs :
                    key[2] # 0 /\ KeyJ(key) < delta_j /\ Abs(coeffs[key]) # 0})
    IN [i \in 1..Len(keys) |->
           [key |-> keys[i], coeff |-> coeffs[keys[i]],
            th |-> [v |-> Abs(coeffs[keys[i]]), j |-> KeyJ(keys[i])],
            num_gt |-> nums[keys[i]] > GN_NUM]]

\* betas.sort(key=lambda tt: (not tt[5], -tt[4]))
LogSortsBefore(a, b) ==
    \/ a.num_gt /\ ~b.num_gt
    \/ a.num_gt = b.num_gt /\ ThLT(b.th, a.th)

\* the betas the ranking loop does not skip (`if not num_gt: continue`), in
\* the order it meets them
LogRanked(coeffs, nums, delta_j) ==
    LET IsGt(b) == b.num_gt
        betas == LogBetas(coeffs, nums, delta_j)
    IN SelectSeq(StableSort([p \in Range(betas) \X Range(betas) |->
                                LogSortsBefore(p[1], p[2])], betas), IsGt)

\* self.ranking: the rank_tuple (k, logLL, penalty, logLL + penalty, th) of
\* the alphas alone and of every prefix of the ranked betas.  logLL[m + 1] is
\* the -log-likelihood of the samples under the alphas and the first m betas.
LogRanking(coeffs, nums, delta_j, n, logLL) ==
    LET num_alphas == Cardinality(ifpos(coeffs, LogAlphaKeys(coeffs)))
        ranked == LogRanked(coeffs, nums, delta_j)
    IN [i \in 1..(Len(ranked) + 1) |->
           [k |-> num_alphas + (i - 1),
            logLL |-> logLL[i],
            penalty |-> Penalty(num_alphas + (i - 1), n),
            val |-> NumAdd(logLL[i], Penalty(num_alphas + (i - 1), n)),
            th |-> IF i = 1 THEN [v |-> 0, j |-> 0] ELSE ranked[i - 1].th]]

\* best_tuple with `<=` where the code has `<`
RECURSIVE BestTupleLastMin(_, _, _)
BestTupleLastMin(ranking, from, best_tuple) ==
    IF from > Len(ranking) THEN best_tuple
    ELSE BestTupleLastMin(ranking, from + 1,
                          IF ~NumLT(best_tuple.val, ranking[from].val)
                          THEN ranking[from] ELSE best_tuple)

\* lines 181, 200-201: `if rank_tuple[3] < best_tuple[3]: best_tuple = rank_tuple`
\* over ranking[from..], starting from best_tuple
RECURSIVE BestTuple(_, _, _)
BestTuple(ranking, from, best_tuple) ==
    IF from > Len(ranking) THEN best_tuple
    ELSE BestTuple(ranking, from + 1,
                   IF NumLT(ranking[from].val, best_tuple.val)
                   THEN ranking[from] ELSE best_tuple)

\* calc_hard_threshold_fun(best_tuple): the closure hard_th
calc_hard_threshold_fun(best_tuple) ==
    [betas_num |-> best_tuple.k, th_value |-> best_tuple.th]

\* hard_th(n, j, num, coeff): lvl_t = th_value * sqrt(j + 1) when num > GN_NUM,
\* else 0.0; the coefficient is kept unless |coeff| < lvl_t
hard_th(fun, n, j, num, coeff) ==
    LET below == IF num > GN_NUM
                 THEN coeff * coeff * (fun.th_value.j + 1)
                          < fun.th_value.v * fun.th_value.v * (j + 1)
                 ELSE FALSE
    IN IF below THEN 0 ELSE coeff

\* th_fun of pdffun_j: self.thresholding, read when the density is evaluated
ThFun(thresholding, threshold, n, j, num, coeff) ==
    IF thresholding # None /\ threshold THEN hard_th(thresholding, n, j, num, coeff)
    ELSE coeff

\* coeff_t of a key in pdffun: the alphas with threshold = False, the betas
\* of the levels below delta_j with threshold = True
LogCoeffT(key) ==
    ThFun(log_thresholding, ~IsAlpha(key), log_n, KeyJ(key), log_nums[key], log_coeffs[key])

\* pdffun(coords) at one coordinate x: (xs_sum * xs_sum) / norm_const
LogPdfAt(x) ==
    LET keys == KeysInOrder({key \in DOMAIN log_coeffs :
                                IsAlpha(key) \/ KeyJ(key) < log_delta_j})
        xs_sum == SumSeq([i \in 1..Len(keys) |-> LogCoeffT(keys[i]) * FunIx("base", keys[i], x)])
        norm_const == SumSeq([i \in 1..Len(keys) |-> LogCoeffT(keys[i]) * LogCoeffT(keys[i])])
    IN [x |-> x, num |-> xs_sum * xs_sum, den |-> norm_const]

----------------------------------------------------------------------------
(* The log estimator, call by call, on one sample.  The sample is given by   *)
(* what the estimator computes from it: the coefficient v and the support    *)
(* count num of every key (do_calculate_j), and the -log-likelihood of the   *)
(* samples under the alphas and each prefix of the ranked betas.             *)

\* Bounds of the samples
LogMaxBetas == 2

LogDeltaJs == {0, 1, 2}

LogZs == {0, 1}

\* (v, num) of a beta whose dual function reaches samples
LogBetaProfiles == {<<1, GN_NUM + 1>>, <<-2, GN_NUM + 1>>, <<1, 1>>}

\* logLL + penalty of a model: two finite values and +inf
LogTotals == {Fin(0), Fin(1000), PosInf}

LogBetaKeys(delta_j) == {<<j, 1, z>> : j \in 0..(delta_j - 1), z \in LogZs}

\* The samples: keys outside B and the second alpha, when a1 = 0, have no
\* sample in their support (v = 0, num = 0); total[i] is logLL + penalty of
\* the model of rank i.
LogSample(delta_j, B, bp, a1, total) ==
    LET keys == {<<0, 0, 0>>, <<0, 0, 1>>} \cup LogBetaKeys(delta_j)
        coeffs == [key \in keys |->
                      IF key = <<0, 0, 0>> THEN 1
                      ELSE IF key = <<0, 0, 1>> THEN a1
                      ELSE IF key \in B THEN bp[key][1] ELSE 0]
        nums == [key \in keys |->
                      IF key = <<0, 0, 0>> THEN GN_NUM + 1
                      ELSE IF key = <<0, 0, 1>> THEN a1 * (GN_NUM + 1)
                      ELSE IF key \in B THEN bp[key][2] ELSE 0]
        n == GN_NUM + 1
        num_alphas == Cardinality(ifpos(coeffs, LogAlphaKeys(coeffs)))
    IN [coeffs |-> coeffs, nums |-> nums, n |-> n,
        logLL |-> [i \in DOMAIN total |->
                      IF total[i].inf THEN PosInf
                      ELSE Fin(total[i].m - Penalty(num_alphas + (i - 1), n).m)]]

\* The most alphas a sample gives a non-zero coefficient: a sample lies in
\* the support of as many translates as the wavelet's support is wide
LogMaxAlphas == 7

\* A sample of two points (the fewest that calculate_nearest_balls accepts
\* for k = 1) in the support of na alphas; delta_j = 0, so there is no beta.
LogSmallSample(na, total) ==
    LET keys == {<<0, 0, z>> : z \in 0..(na - 1)}
    IN [coeffs |-> [key \in keys |-> 1], nums |-> [key \in keys |-> 2], n |-> 2,
        logLL |-> <<IF total.inf THEN PosInf ELSE Fin(total.m - Penalty(na, 2).m)>>]

LogInit ==
    /\ log_pc = "new"
    /\ \/ \E delta_j \in LogDeltaJs, a1 \in {0, 1} :
          \E B \in SUBSET LogBetaKeys(delta_j) :
          \E bp \in [B -> LogBetaProfiles] :
             /\ Cardinality(B) <= LogMaxBetas
             /\ log_delta_j = delta_j
             /\ LET eligible == {key \in B : bp[key][2] > GN_NUM}
                IN \E total \in [1..(Cardinality(eligible) + 1) -> LogTotals] :
                      log_xs = LogSample(delta_j, B, bp, a1, total)
       \/ \E na \in 1..LogMaxAlphas, total \in LogTotals :
             /\ log_delta_j = 0
             /\ log_xs = LogSmallSample(na, total)
    /\ log_coeffs = <<>>
    /\ log_nums = <<>>
    /\ log_n = 0
    /\ log_ranking = <<>>
    /\ log_best = <<>>
    /\ log_thresholding = None
    /\ log_pdf = None
    /\ log_val = <<>>

\* fit(xs): _fitinit and calc_pdf.  The function calc_pdf returns reads
\* self.coeffs, self.nums and self.thresholding when it is called.
LogFit ==
    /\ log_coeffs' = log_xs.coeffs
    /\ log_nums' = log_xs.nums
    /\ log_n' = log_xs.n
    /\ log_pdf' = [dim |-> WaveDim]
    /\ log_pc' = "fit"
    /\ log_val' = <<>>
    /\ UNCHANGED <<log_xs, log_delta_j, log_ranking, log_best, log_thresholding>>
    /\ UNCHANGED logRest

\* mdlfit(xs): _fitinit, calc_pdf_mdl, calc_hard_threshold_fun, calc_pdf
MdlFit ==
    LET ranking == LogRanking(log_xs.coeffs, log_xs.nums, log_delta_j, log_xs.n, log_xs.logLL)
        best_tuple == BestTuple(ranking, 2, ranking[1])
    IN /\ log_coeffs' = log_xs.coeffs
       /\ log_nums' = log_xs.nums
       /\ log_n' = log_xs.n
       /\ log_ranking' = ranking
       /\ log_best' = best_tuple
       /\ log_thresholding' = calc_hard_threshold_fun(best_tuple)
       /\ log_pdf' = [dim |-> WaveDim]
       /\ log_pc' = "mdlfit"
       /\ log_val' = <<>>
       /\ UNCHANGED <<log_xs, log_delta_j>>
       /\ UNCHANGED logRest

\* self.pdf(coords) at the coordinate x
LogEval(x) ==
    /\ log_pdf # None
    /\ log_val' = LogPdfAt(x)
    /\ UNCHANGED <<log_pc, log_xs, log_delta_j, log_coeffs, log_nums, log_n, log_ranking,
                   log_best, log_thresholding, log_pdf>>
    /\ UNCHANGED logRest

LogNext ==
    \/ LogFit
    \/ MdlFit
    \/ \E x \in 0..(GridCells - 1) : LogEval(x)

----------------------------------------------------------------------------
(* Specifications.  Each runs one part of the program; the variables of the  *)
(* other parts stay idle.                                                    *)

CvIdle ==
    /\ cv_pc = "idle"
    /\ cv_params = <<>>
    /\ cv_args = <<>>
    /\ cv_coeffs = <<>>
    /\ cv_single = <<>>
    /\ mt_levels = <<>>
    /\ mt_current = <<>>
    /\ mt_trace = 0
    /\ cv_result = <<>>

PdfIdle ==
    /\ pdf_pc = "idle"
    /\ pdf_arg = <<>>
    /\ pdf_fun = <<>>
    /\ pdf_val = <<>>

LogIdle ==
    /\ log_pc = "idle"
    /\ log_xs = <<>>
    /\ log_delta_j = 0
    /\ log_coeffs = <<>>
    /\ log_nums = <<>>
    /\ log_n = 0
    /\ log_ranking = <<>>
    /\ log_best = <<>>
    /\ log_thresholding = None
    /\ log_pdf = None
    /\ log_val = <<>>

EstIdle ==
    /\ est_pc = "off"
    /\ est_xs = <<>>
    /\ est_tree = <<>>
    /\ est_cfg = <<>>
    /\ est_delta_j = 0
    /\ est_ref = "None"
    /\ est_params = None
    /\ est_pdf = None
    /\ est_held = None
    /\ est_call = <<>>
    /\ bj_ini_j = 0
    /\ bj_ix = 0

LooIdle ==
    /\ loo_pc = "idle"
    /\ loo_in = <<>>
    /\ loo_ix = 0
    /\ loo_balls = <<>>
    /\ loo_no_ix = 0
    /\ loo_no_i = <<>>

ItIdle ==
    /\ it_pc = "idle"
    /\ it_params = <<>>
    /\ it_coeffs = {}
    /\ it_loss = <<>>
    /\ it_contributions = <<>>
    /\ it_max_lvl = 0
    /\ it_accepted = <<>>
    /\ it_stop = "none"
    /\ it_delta_j = 0

\* calc_pdf_cv on a fitted estimator
InitCV == CvInit /\ PdfIdle /\ LogIdle /\ EstIdle /\ LooIdle /\ ItIdle

SpecCV == InitCV /\ [][CvNext]_vars

\* calc_pdf on a coefficient set, and the function it returns
InitPdf == PdfInit /\ CvIdle /\ LogIdle /\ EstIdle /\ LooIdle /\ ItIdle

SpecPdf == InitPdf /\ [][PdfNext]_vars

\* the square-root estimator's calls on one sample object
InitEst == EstInit /\ CvIdle /\ PdfIdle /\ LogIdle /\ LooIdle /\ ItIdle

SpecEst == InitEst /\ [][EstNext]_vars

\* the same calls on an estimator built with the default delta_j = 0, whose
\* caller keeps a density function
InitHeld == InitEst /\ est_cfg.delta_j = 0

SpecHeld == InitHeld /\ [][HeldNext]_vars

\* the log estimator on one sample
InitLog == LogInit /\ CvIdle /\ PdfIdle /\ EstIdle /\ LooIdle /\ ItIdle

SpecLog == InitLog /\ [][LogNext]_vars

\* the leave-one-out ball volumes of one sample
InitLoo == LooInit /\ CvIdle /\ PdfIdle /\ LogIdle /\ EstIdle /\ ItIdle

SpecLoo == InitLoo /\ [][LooNext]_vars

\* calc_iter_pdf on the store iterfit's _iterinit left in self.params
InitIter == ItInit /\ CvIdle /\ PdfIdle /\ LogIdle /\ EstIdle /\ LooIdle

SpecIter == InitIter /\ [][ItNext]_vars

----------------------------------------------------------------------------
(* Claims about cross-validated selection *)

CvFull == cv_params.coeffs

CvNumAlphas == Cardinality({key \in DOMAIN cv_coeffs : IsAlpha(key)})

\* <<batta_sum, norm_sum>> of the alphas and of the candidates
\* sorted_contrib[:pos_k + 1] of every returned ThresholdResult
LossAtCutoffs(results) ==
    LET Kept(i) == PyPrefix(results[i].sorted_contrib, results[i].pos_k + 1)
    IN <<CvAlphaContribution
           + SumSeq([i \in 1..Len(results) |->
                        SumSeq([m \in 1..Len(Kept(i)) |-> Kept(i)[m].contrib])]),
         CvAlphaNorm
           + SumSeq([i \in 1..Len(results) |->
                        SumSeq([m \in 1..Len(Kept(i)) |-> Kept(i)[m].coeff2])])>>

\* C1: when multi_threshold returns, the global loss at the returned per-level
\* cutoffs is less than or equal to the target_val of the single-threshold
\* result it was started from.
C1_MultiNotWorseThanSingle ==
    (cv_pc = "returned" /\ ~cv_args.single)
        => LossLE(cv_args.loss, LossAtCutoffs(cv_result), cv_single.target_val)

C4_PosKAtMostNMinusAlphas ==
    (cv_pc \in {"returned", "mt_loop"} /\ cv_single.msg = "All")
        => cv_single.pos_k <= cv_params.n - CvNumAlphas

\* single_threshold returned with the cap in force: the loss is least at a
\* position beyond n - |alphas|.
C4_Witness ==
    /\ cv_pc = "returned"
    /\ cv_single.msg = "All"
    /\ ArgMinLoss(cv_args.loss,
                  CFunctionVals(cv_single.sorted_contrib, CvAlphaNorm, CvAlphaContribution))
           > cv_params.n - CvNumAlphas
    /\ cv_single.pos_k = cv_params.n - CvNumAlphas

\* C5: single-threshold selection adds at most n - |alphas| betas to the
\* reduced store.
C5_AtMostNMinusAlphasBetas ==
    (cv_pc = "returned" /\ cv_args.single)
        => Cardinality({key \in DOMAIN cv_coeffs : ~IsAlpha(key)})
               <= cv_params.n - CvNumAlphas

----------------------------------------------------------------------------
(* Claims about calc_pdf *)

\* C6: the value of a function returned by calc_pdf is >= 0 at every
\* evaluated coordinate.
C6_DensityNonNegative ==
    pdf_pc = "evaluated" => FloatGE0(pdf_val)

\* C7: calc_pdf does not return a function for a coefficient set whose
\* normalization constant is <= 0.
C7_NonPositiveNormRaises ==
    (pdf_pc # "begin" /\ ~(\E key \in DOMAIN pdf_arg : pdf_arg[key] = None)
        /\ NormConst(pdf_arg) <= 0)
        => pdf_pc = "raised"

----------------------------------------------------------------------------
(* Claims about the square-root estimator's calls *)

\* the store of the first fit(xs) on a fresh estimator of the same
\* configuration
FreshFitStore == InitParams(est_xs, est_tree, est_cfg.k, est_cfg.delta_j, TRUE).coeffs

\* C2: when a call of fit(xs) has returned, the coefficient store equals the
\* store the first fit(xs) of a fresh estimator with the same configuration
\* produces, whatever calls of fit, cvfit, iterfit and best_j on the same xs
\* came before it.
C2_FitStoreAsFirstFit ==
    (est_pc = "idle" /\ est_call = Call("fit", "xs", <<>>, FALSE))
        => est_params.coeffs = FreshFitStore

\* the index set of best_j's level ini_j, computed from the samples without
\* sample ix_loo and with the volumes adjusted for its removal
LooStore(ini_j, ix_loo) ==
    FillStore(CalcIndexesJ(<<>>, ini_j, QqAlpha, est_params.minx, est_params.maxx),
              Delete(est_xs, ix_loo), LooBalls(est_params, ix_loo),
              omega(est_params.n - 1))

\* C8: inside best_j, when calc_coeffs_loo(xs, i) has returned, for
\* i = 0, 1, ..., n-1 in turn on the index set of one level, the store is the
\* one computed from the samples without sample i with the adjusted ball
\* volumes.
C8_LooStoreOfRemovedSample ==
    (est_pc = "best_j" /\ bj_ix >= 1)
        => est_params.coeffs = LooStore(bj_ini_j, bj_ix - 1)

\* C15: calc_pdf_cv, with single_threshold and with multi_threshold, leaves
\* the full store params.coeffs as it was, keys and entries; what it selects
\* goes to the dict it returns.
C15_CvLeavesStore ==
    [][cv_params'.coeffs = cv_params.coeffs]_vars

\* a multi_threshold selection returned with some beta of the store selected
\* and another one not
C15_Witness ==
    /\ cv_pc = "returned"
    /\ ~cv_args.single
    /\ \E key \in DOMAIN cv_coeffs : ~IsAlpha(key)
    /\ \E key \in ScannedKeys(cv_params.coeffs) : key \notin DOMAIN cv_coeffs

\* C16: after calc_coeffs returned, no entry of the store is None and every
\* entry has a coefficient coeff or coeff_b that is not below the floor; the
\* keys whose two coefficients are below it are not in the store.
C16_StoreFilledAboveFloor ==
    (est_pc = "idle" /\ est_params # None)
        => \A key \in DOMAIN est_params.coeffs :
              /\ est_params.coeffs[key] # None
              /\ est_params.coeffs[key][1] # 0 \/ est_params.coeffs[key][2] # 0

\* fit returned and a key that _calc_indexes made is not in the store
C16_Witness ==
    /\ est_call = Call("fit", "xs", <<>>, FALSE)
    /\ est_params # None
    /\ \E key \in DOMAIN CalcIndexes(TRUE, est_params.delta_j, est_params.minx,
                                      est_params.maxx) :
          key \notin DOMAIN est_params.coeffs

\* C17: when multi_threshold has built its levels, the cutoff of a level below
\* th_j is at the last candidate of the level (all selected), the cutoff of a
\* level above th_j is -1 (none selected), and the cutoff of level th_j is at
\* the last candidate whose ordering key is >= the single-threshold value.
C17_InitialCutoffs ==
    (cv_pc = "mt_loop" /\ mt_trace = 0)
        => \A i \in 1..Len(mt_levels) :
              LET st == mt_levels[i]
                  ge == {m \in 1..Len(st.contribs) :
                            st.contribs[m].thr >= cv_single.threshold}
              IN /\ st.j < cv_single.th_j => st.curr_k = Len(st.contribs) - 1
                 /\ st.j > cv_single.th_j => st.curr_k = -1
                 /\ st.j = cv_single.th_j => st.curr_k = Cardinality(ge) - 1

\* the number of combinations of cutoffs that lie inside every level's list
RECURSIVE CutoffCombinations(_)
CutoffCombinations(levels) ==
    IF levels = <<>> THEN 1
    ELSE Len(levels[1].contribs) * CutoffCombinations(Tail(levels))

\* C18: the search of multi_threshold ends: a round that is accepted leaves a
\* tracked loss strictly below the one it started with, a round that finds no
\* lower loss is the last one, and so there are never more accepted rounds
\* than combinations of cutoffs inside the levels' candidate lists.
C18_SearchTerminates ==
    /\ [](mt_trace <= CutoffCombinations(mt_levels))
    /\ [][(cv_pc = "mt_loop" /\ mt_levels' # mt_levels)
             => LossLT(cv_args.loss, mt_current', mt_current)]_vars
    /\ [][(cv_pc = "mt_loop" /\ ~CvRound.ok) => cv_pc' # "mt_loop"]_vars

\* the search returned after a round that was accepted
C18_Witness ==
    /\ cv_pc = "returned"
    /\ ~cv_args.single
    /\ mt_trace >= 1

\* the loss at the cutoffs curr_k the levels are at
LossAtCurrK(levels) ==
    EvalTarget(CvAlphaContribution, CvAlphaNorm,
               SetDk(levels, [i \in 1..Len(levels) |-> 0]))

\* C19: during the search of multi_threshold current_val is the loss at the
\* levels' cutoffs, also after an accepted round, and the target_val of the
\* returned results is the loss at the returned pos_k values.
C19_TrackedLossAtCutoffs ==
    /\ cv_pc = "mt_loop"
          => /\ LossLE(cv_args.loss, mt_current, LossAtCurrK(mt_levels))
             /\ LossLE(cv_args.loss, LossAtCurrK(mt_levels), mt_current)
    /\ (cv_pc = "returned" /\ ~cv_args.single)
          => \A i \in 1..Len(cv_result) :
                /\ LossLE(cv_args.loss, cv_result[i].target_val, LossAtCutoffs(cv_result))
                /\ LossLE(cv_args.loss, LossAtCutoffs(cv_result), cv_result[i].target_val)

\* C20: in a round of multi_threshold a combination of offsets is skipped only
\* when it is all zero or when a level it moves would leave its candidate
\* list; a level whose offset is 0 does not make the round skip it.
C20_SkipsOnlyMovedOutside ==
    cv_pc = "mt_loop"
        => \A dk_js \in Range(Product(Len(mt_levels))) :
              ~Evaluated(mt_levels, dk_js)
                 => \/ \A i \in 1..Len(dk_js) : dk_js[i] = 0
                    \/ \E i \in 1..Len(dk_js) :
                          dk_js[i] # 0 /\ ~DkOk(SetDk(mt_levels, dk_js)[i])

\* the store `coeffs` after the index extension of levels 0..delta_j-1 and
\* calc_coeffs(xs), as calc_iter_pdf (541-543) and pre_coeffs/_calc_indexes do
ExtendedAndFilled(params, delta_j, xs) ==
    CalcCoeffs([params EXCEPT !.coeffs =
                   CalcBetaIndexes(params.coeffs, 0, delta_j, params.minx, params.maxx)],
               xs)

\* C22: index extension and calc_coeffs leave every entry that was computed as
\* it was: _calc_indexes_j adds keys only, and calc_coeffs fills only the
\* entries that are None.  Checked on every store the estimator ever has
\* (those best_j left with leave-one-out values included), and on every
\* fitting call made on the WParams the estimator already has.
C22_ComputedEntriesKept ==
    /\ [](est_params # None
            => \A delta_j \in EstDeltaJs :
                  /\ \A key \in DOMAIN est_params.coeffs :
                        CalcBetaIndexes(est_params.coeffs, 0, delta_j, est_params.minx,
                                        est_params.maxx)[key] = est_params.coeffs[key]
                  /\ \A key \in DOMAIN est_params.coeffs :
                        est_params.coeffs[key] # None
                           => ExtendedAndFilled(est_params, delta_j, est_xs)[key]
                                 = est_params.coeffs[key])
    /\ [][(/\ est_pc = "idle" /\ est_pc' = "idle"
           /\ est_params # None
           /\ est_ref' = est_ref
           /\ est_call'.op \in {"fit", "cvfit", "iterfit"})
             => \A key \in DOMAIN est_params.coeffs :
                   est_params.coeffs[key] # None
                      => /\ key \in DOMAIN est_params'.coeffs
                         /\ est_params'.coeffs[key] = est_params.coeffs[key]]_vars

C22_Witness ==
    /\ est_call = Call("iterfit", "xs", <<>>, FALSE)
    /\ est_cfg.delta_j = 0
    /\ est_params # None
    /\ \E key \in DOMAIN est_params.coeffs : key[2] = 1

\* C26: when the greedy phase of iterfit starts, the retained set (the dict
\* `coeffs` after the loop of lines 493-501, kept here as the always-selected
\* part of self.pdf) holds alpha coefficients only, whatever calls came before.
C26_GreedyStartsWithAlphas ==
    (est_pc = "idle" /\ est_call.op = "iterfit" /\ ~est_call.raised)
       => \A key \in DOMAIN est_pdf.fun.coeffs : IsAlpha(key)

\* the betas single-threshold selection retained
RetainedBetas == {key \in DOMAIN cv_coeffs : ~IsAlpha(key)}

\* C28: the candidate list of single-threshold selection is in ascending order
\* of level and, within a level, in descending order of the ordering key; the
\* retained betas are a prefix of it, so a beta is retained only if every
\* candidate of every lower level is.
C28_RetainedIsSortedPrefix ==
    (cv_pc = "returned" /\ cv_args.single)
       => LET sorted == cv_single.sorted_contrib
          IN /\ \A i \in 1..Len(sorted) : \A m \in (i + 1)..Len(sorted) :
                   \/ KeyJ(sorted[i].key) < KeyJ(sorted[m].key)
                   \/ /\ KeyJ(sorted[i].key) = KeyJ(sorted[m].key)
                      /\ sorted[i].thr >= sorted[m].thr
             /\ \E p \in 0..Len(sorted) :
                   RetainedBetas = {sorted[i].key : i \in 1..p}
             /\ \A i \in 1..Len(sorted) : \A m \in 1..Len(sorted) :
                   (/\ sorted[m].key \in RetainedBetas
                    /\ KeyJ(sorted[i].key) < KeyJ(sorted[m].key))
                      => sorted[i].key \in RetainedBetas

\* candidates of two levels, a beta of the upper level retained and another
\* candidate not
C28_Witness ==
    /\ cv_pc = "returned"
    /\ cv_args.single
    /\ \E key \in RetainedBetas : KeyJ(key) = 1
    /\ \E i \in 1..Len(cv_single.sorted_contrib) :
          cv_single.sorted_contrib[i].key \notin RetainedBetas

\* the estimator's state as its caller sees it
EstVisible == <<est_params, est_ref, est_pdf, est_delta_j>>

\* C12: a call of fit, cvfit, iterfit or best_j with a sample matrix whose
\* column count is not the wavelet's dimension raises, and leaves params, the
\* cached sample reference and pdf as they were: nothing was computed.
C12_WrongDimRaisesUnchanged ==
    [][(est_call' # est_call /\ est_call'.arg = "ys")
          => (est_call'.raised /\ est_pc' = "idle" /\ EstVisible' = EstVisible)]_vars

\* a fitted estimator after iterfit was called with such a matrix
C12_Witness ==
    /\ est_call = Call("iterfit", "ys", <<>>, TRUE)
    /\ est_ref = "xs"
    /\ est_pdf # None

\* C13: a call of cvfit with a loss outside LOSSES or an ordering outside
\* ORDERINGS raises, and leaves params, the cached sample reference and pdf as
\* they were: no ball volume and no coefficient was computed.
C13_WrongOptionRaisesUnchanged ==
    [][(/\ est_call' # est_call
        /\ est_call'.op = "cvfit"
        /\ ~(est_call'.opts[1] \in LOSSES /\ est_call'.opts[2] \in ORDERINGS))
          => (est_call'.raised /\ est_pc' = "idle" /\ EstVisible' = EstVisible)]_vars

\* a fresh estimator after cvfit(xs) was called with an unknown ordering
C13_Witness ==
    /\ est_call = Call("cvfit", "xs", <<NEW_LOSS, "RefTao">>, TRUE)
    /\ est_ref = "None"
    /\ est_params = None

\* the value of a density function at x, given by |xs_sum| and norm_const
HeldValue(fun, x) == <<Abs(PdfSumAt(fun, x)), fun.norm_const>>

\* C14: a density function the caller kept has, after any later calls of
\* fit, cvfit, iterfit and best_j, the value at every coordinate that it had
\* when it was returned.
C14_HeldFunctionFixed ==
    est_held # None
        => \A x \in 0..(GridCells - 1) :
              HeldValue(est_held.now.fun, x) = HeldValue(est_held.then, x)

----------------------------------------------------------------------------
(* Claims about the greedy phase of iterfit *)

\* C23: a candidate is added to the retained set only if the loss after adding
\* it is > 0 and strictly below the loss before, so the loss after each
\* acceptance is positive and lower than the one before it; and the loop
\* ends: every acceptance takes one candidate off the list, and a pass that
\* accepts nothing leaves the loop.
C23_AcceptsOnlyImprovement ==
    /\ [][(it_pc = "greedy" /\ it_coeffs' # it_coeffs)
             => /\ ItPositive(it_loss')
                /\ LossLT(NORMED_LOSS, it_loss', it_loss)]_vars
    /\ [][(it_pc = "greedy" /\ it_accepted' # it_accepted)
             => /\ ItPositive(it_loss')
                /\ LossLT(NORMED_LOSS, it_loss', it_loss)
                /\ Len(it_contributions') = Len(it_contributions) - 1]_vars
    /\ [][(it_pc = "greedy" /\ it_accepted' = it_accepted) => it_pc' # "greedy"]_vars
    /\ [](Len(it_accepted) + Len(it_contributions) <= Cardinality(ItBetaKeys))

\* the greedy loop accepted two candidates and returned
C23_Witness ==
    /\ it_pc = "returned"
    /\ Len(it_accepted) >= 2

\* C24: when the greedy loop has stopped for another reason than the cap, no
\* candidate left on the list would, if added, give a loss that is positive
\* and strictly below the current loss.
C24_NoImprovingCandidateLeft ==
    (it_pc = "returned" /\ it_stop # "cap")
       => \A i \in 1..Len(it_contributions) :
             ~(ItPositive(ItAfter(i)) /\ LossLT(NORMED_LOSS, ItAfter(i), it_loss))

\* the alphas the greedy phase started with
ItAlphas == {key \in DOMAIN it_params.store : IsAlpha(key)}

\* C25: no beta is accepted once the retained set holds at least 0.99 n
\* coefficients: the returned set has fewer than 0.99 n + 1 coefficients,
\* unless the alphas alone reach the cap, and then no beta is added.
C25_CapOnRetainedSet ==
    it_pc = "returned"
       => IF 100 * Cardinality(ItAlphas) >= 99 * it_params.n
          THEN it_coeffs = ItAlphas
          ELSE 100 * Cardinality(it_coeffs) < 99 * it_params.n + 100

\* C27: after iterfit has returned, self.delta_j is one more than the highest
\* level among the betas the greedy loop accepted in that run.
C27_DeltaJFromAccepted ==
    it_pc = "returned"
       => \E i \in 1..Len(it_accepted) :
             /\ it_delta_j = 1 + KeyJ(it_accepted[i])
             /\ \A o \in 1..Len(it_accepted) : KeyJ(it_accepted[o]) <= KeyJ(it_accepted[i])

----------------------------------------------------------------------------
(* Claims about the leave-one-out ball volumes *)

\* i is one of the k nearest neighbours of sample j (0-based indices): the
\* columns after the sample itself and before the (k+1)-th neighbour
LooNear(j, i) == \E c \in 2..(loo_in.k + 1) : loo_in.tree[j + 1][c] = i

\* the volume the claim gives sample j when i is left out
LooVolume(j, i) ==
    LET info == CalcSqrtVs(loo_in.xs, loo_in.tree)
    IN IF LooNear(j, i) THEN info.sqrt_vol_k_plus_1[j + 1] ELSE info.sqrt_vol_k[j + 1]

\* C21: with index i left out, the volume used for a sample j # i is its
\* (k+1)-th-ball volume when i is among j's k nearest neighbours and its
\* k-th-ball volume otherwise, in calc_coeffs_loo and in balls_no_i.
C21_LooVolumes ==
    loo_pc = "done"
        => \A j \in 0..(Len(loo_in.xs) - 1) :
              /\ (loo_balls # <<>> /\ j # loo_ix)
                    => loo_balls[IF j < loo_ix THEN j + 1 ELSE j] = LooVolume(j, loo_ix)
              /\ (loo_no_i # <<>> /\ j # loo_no_ix)
                    => loo_no_i[j + 1] = LooVolume(j, loo_no_ix)

----------------------------------------------------------------------------
(* Claims about the log estimator *)

\* the models of self.ranking whose logLL + penalty is the least
LogMinima ==
    {i \in DOMAIN log_ranking :
        \A m \in DOMAIN log_ranking : ~NumLT(log_ranking[m].val, log_ranking[i].val)}

\* C9: the tuple calc_pdf_mdl returns is one of the ranking (the alphas alone
\* or a prefix of the ranked eligible betas) whose logLL + penalty is the
\* minimum, and among those with the minimum the one with the smallest k.
C9_MdlReturnsFirstMinimum ==
    log_pc = "mdlfit"
        => \E i \in LogMinima :
              /\ log_best = log_ranking[i]
              /\ \A m \in LogMinima : log_ranking[i].k <= log_ranking[m].k

\* mdlfit returned a prefix with betas that ties with a longer prefix at a
\* finite minimum, below the value of the alphas alone.
C9_Witness ==
    /\ log_pc = "mdlfit"
    /\ ~log_best.val.inf
    /\ NumLT(log_best.val, log_ranking[1].val)
    /\ \E i, m \in LogMinima : i < m /\ log_best = log_ranking[i]

\* the beta keys of the levels pdffun reads
LogDensityBetas == {key \in DOMAIN log_coeffs : key[2] # 0 /\ KeyJ(key) < log_delta_j}

\* C10: when mdlfit returns and every beta has a support count <= GN_NUM,
\* the installed hard-threshold function maps every beta coefficient to 0 in
\* the density.
C10_NoEligibleBetaGivesAlphaOnly ==
    (log_pc = "mdlfit" /\ \A key \in LogDensityBetas : log_nums[key] <= GN_NUM)
        => \A key \in LogDensityBetas : LogCoeffT(key) = 0

\* C11: when mdlfit returns, the penalty of the tuple calc_pdf_mdl chose (the
\* alphas alone or a prefix of the ranked betas, with its parameter count k)
\* is not negative.
C11_ChosenPenaltyNotNegative ==
    log_pc = "mdlfit" => log_best.penalty.m >= 0

\* the betas of the ranked prefix calc_pdf_mdl selected: the first
\* k - num_alphas of the ranking order
LogSelectedPrefix ==
    LET ranked == LogRanked(log_coeffs, log_nums, log_delta_j)
        num_alphas == Cardinality(ifpos(log_coeffs, LogAlphaKeys(log_coeffs)))
    IN {ranked[i].key : i \in 1..Min2(log_best.k - num_alphas, Len(ranked))}

\* C29: after mdlfit, the betas the installed hard-threshold function leaves
\* non-zero in the density are exactly those of the selected ranked prefix;
\* every other beta, those with a support count <= GN_NUM included, is 0.
C29_DensityBetasAreSelectedPrefix ==
    log_pc = "mdlfit"
        => {key \in LogDensityBetas : LogCoeffT(key) # 0} = LogSelectedPrefix

====
